---- MODULE Spec2Model ----
(***************************************************************************)
(* A model of slacky-hub: the sync orchestrator (pages/api/sync.ts and     *)
(* lib/services/mappingSyncService.ts), its cron audit log, the prompt     *)
(* handlers, the delete guards of channels and companies, the webhook      *)
(* signature verification (pages/api/firespot.ts), the bulk syncs of       *)
(* channels and companies, and the processing of a FireHookLog.            *)
(***************************************************************************)
EXTENDS Integers, Sequences, FiniteSets, TLC

(***************************************************************************)
(* Bounds of the model.                                                    *)
(***************************************************************************)
\* total number of Slack channels attached to the mappings of the database
MaxChannels == 2

\* rows of the Prompt table
MaxPrompts == 3

\* prompt requests that may be in flight together
MaxRequests == 2

\* rows of the SlackChannel and of the HubspotCompany table
MaxRows == 2

\* rows of the Mapping table in the delete-guard model
MaxMappingRows == 2

\* bytes of a webhook payload
MaxPayloadLen == 2

\* bytes of a digest (32 for SHA-256)
DigestBytes == 2
\* the calendar years the cadence evaluator is run over, from 2023
MaxYears == 2

\* pages of a provider listing in the bulk syncs
MaxPages == 2

\* items of a provider listing, all pages together
MaxListed == 2

\* process requests on one FireHookLog that may be in flight together
MaxProcessRequests == 2

(***************************************************************************)
(* Values shared by the sync orchestrator's two entry points.              *)
(***************************************************************************)
\* JavaScript's undefined / null for a string-valued field
NoError == ""

\* a channel name is a sequence of characters; the empty one is a missing name
ChannelCatalogue ==
    << [channelId |-> "C1", name |-> <<"g", "e", "n">>],
       [channelId |-> "C2", name |-> <<"#", "d", "e", "v">>],
       [channelId |-> "C3", name |-> <<>>],
       [channelId |-> "C4", name |-> <<"o", "p", "s">>] >>

\* the mappings an installation may hold, in id order; the last cadence is one
\* the code does not recognise
MappingCatalogue ==
    << [id |-> 1, cadence |-> "daily",
        hubspotCompany |-> [companyId |-> "company-1", name |-> "Company 1"]],
       [id |-> 2, cadence |-> "weekly",
        hubspotCompany |-> [companyId |-> "company-2", name |-> "Company 2"]],
       [id |-> 3, cadence |-> "monthly",
        hubspotCompany |-> [companyId |-> "company-3", name |-> ""]],
       [id |-> 4, cadence |-> "",
        hubspotCompany |-> [companyId |-> "company-4", name |-> "Company 4"]] >>

RECURSIVE SumSeq(_)
SumSeq(s) == IF s = <<>> THEN 0 ELSE Head(s) + SumSeq(Tail(s))

\* the channel counts of the mappings: each at least one, MaxChannels in total
Shapes ==
    UNION { { s \in [1..n -> 1..MaxChannels] : SumSeq(s) <= MaxChannels }
            : n \in 0..MaxChannels }

\* which catalogue mappings are present: strictly increasing ids
IdChoices(n) ==
    { s \in [1..n -> 1..Len(MappingCatalogue)] :
        \A i \in 1..n : \A j \in 1..n : i < j => s[i] < s[j] }

ChannelAt(k) == ChannelCatalogue[((k - 1) % Len(ChannelCatalogue)) + 1]

\* the rows prisma.mapping.findMany returns with slackChannels and
\* hubspotCompany included
MappingRow(ids, shape, i) ==
    LET off == SumSeq(SubSeq(shape, 1, i - 1))
        m == MappingCatalogue[ids[i]]
    IN [id |-> m.id, cadence |-> m.cadence, hubspotCompany |-> m.hubspotCompany,
        slackChannels |-> [k \in 1..shape[i] |-> [slackChannel |-> ChannelAt(off + k)]]]

Databases ==
    { [i \in 1..Len(shape) |-> MappingRow(ids, shape, i)] :
        <<ids, shape>> \in UNION { IdChoices(Len(sh)) \X {sh} : sh \in Shapes } }

\* req.body.test: the boolean true, the string "true", or absent
TestValues == {"true", "string:true", "absent"}

\* req.body.mappingId: 0 stands for an absent id
MappingIdValues == {0, 1, 2}

\* what getCadencesForToday may return
CadenceResults ==
    { [shouldSync |-> FALSE, cadences |-> {}],
      [shouldSync |-> TRUE, cadences |-> {"daily"}],
      [shouldSync |-> TRUE, cadences |-> {"daily", "weekly"}] }

\* the messages Slack holds for a channel
MessagesOf(channelId) == << [user |-> "U1", text |-> channelId] >>

VARIABLES
    \* ---- sync orchestrator
    request,          \* [entry, test, mappingId, cadenceResult]
    dbMappings,       \* the Mapping table with its relations
    lastSyncedAt,     \* mapping id -> number of lastSyncedAt stamps
    pc,               \* position of the running handler / service call
    mappings,         \* the mappings being processed
    mi, ci,           \* current mapping and channel
    systemPrompt,
    history,          \* the current channel's fetched messages
    summaryContent,
    results,
    mappingSuccess,
    mappingError,
    mappingStatuses,  \* Map<mapping id, {success, error}> in insertion order
    fatalError,       \* the error caught by the handler's outer catch
    cronLogId,        \* 0 is null
    cronLogs,         \* the CronLog table
    cronLogMappings,  \* the CronLogMapping table
    counters,         \* [k, executed, failed] of the finalisation loop
    response,
    calls,            \* adapter and persistence calls, in order
    outcomes,         \* what each step of each channel did
    auditWrites,      \* writes to the CronLog table, in order
    \* ---- prompt handlers
    prompts,          \* prompt id -> "none" | "inactive" | "active"
    promptNextId,     \* the next autoincrement id
    promptReqs,       \* request slot -> the handler invocation running in it
    promptSerial,     \* TRUE: requests are executed one at a time
    promptLast,       \* the last response sent
    promptStartedSingle, \* the table held at most one active prompt at first
    \* ---- delete guards of channels and companies
    slackChannelRows, \* ids of the SlackChannel rows
    companyRows,      \* ids of the HubspotCompany rows
    mappingRows,      \* mapping id -> [present, hubspotCompanyId, slackChannelIds]
    deleteLast,       \* the last delete request, its response, the rows before it
    \* ---- webhook signature verification
    webhook,          \* the inputs of verifySignature and its result
    \* ---- cadence evaluator
    today,            \* the date of the evaluation and its result
    \* ---- bulk syncs of Slack channels and HubSpot companies
    provider,         \* [kind, pages, endless]: the listing the provider serves
    syncedRows,       \* the SlackChannel / HubspotCompany table of the bulk sync
    bulk,             \* the locals of the running bulk sync handler
    \* ---- processing of a FireHookLog
    fireHookLog,      \* the FireHookLog row the requests name
    meetingNotes,     \* the MeetingNote table
    processReqs       \* request slot -> the handler invocation running in it

syncVars ==
    << request, dbMappings, lastSyncedAt, pc, mappings, mi, ci, systemPrompt,
       history, summaryContent, results, mappingSuccess, mappingError,
       mappingStatuses, fatalError, cronLogId, cronLogs, cronLogMappings,
       counters, response, calls, outcomes, auditWrites >>

promptVars ==
    << prompts, promptNextId, promptReqs, promptSerial, promptLast, promptStartedSingle >>

deleteVars == << slackChannelRows, companyRows, mappingRows, deleteLast >>

webhookVars == << webhook >>

cadenceVars == << today >>

bulkVars == << provider, syncedRows, bulk >>

processVars == << fireHookLog, meetingNotes, processReqs >>

vars ==
    << syncVars, promptVars, deleteVars, webhookVars, cadenceVars, bulkVars,
       processVars >>

nonSyncVars ==
    << promptVars, deleteVars, webhookVars, cadenceVars, bulkVars, processVars >>
nonPromptVars ==
    << syncVars, deleteVars, webhookVars, cadenceVars, bulkVars, processVars >>
nonDeleteVars ==
    << syncVars, promptVars, webhookVars, cadenceVars, bulkVars, processVars >>
nonWebhookVars ==
    << syncVars, promptVars, deleteVars, cadenceVars, bulkVars, processVars >>
nonCadenceVars ==
    << syncVars, promptVars, deleteVars, webhookVars, bulkVars, processVars >>
nonBulkVars ==
    << syncVars, promptVars, deleteVars, webhookVars, cadenceVars, processVars >>
nonProcessVars ==
    << syncVars, promptVars, deleteVars, webhookVars, cadenceVars, bulkVars >>


(***************************************************************************)
(* Pure helpers of the per-mapping pipeline.                               *)
(***************************************************************************)
\* a variant that takes every request for a cron call
isCronCallAnyMethod == request.entry \in {"GET", "POST"}

isCronCall == request.entry = "GET"

\* test === true (handler); the isTestMode parameter (service)
isTestMode == request.test = "true"

\* error.message || fallback
MessageOr(message, fallback) == IF message = "" THEN fallback ELSE message

\* mappingSyncService.ts: the lookback window of a cadence
DaysToFetch(cadence) ==
    LET c == IF cadence = "" THEN "daily" ELSE cadence
    IN CASE c = "daily" -> 1
         [] c = "weekly" -> 7
         [] c = "monthly" -> 30
         [] OTHER -> 1

\* mappingSyncService.ts: the channel label handed to the summarizer
ServiceChannelName(slackChannel) ==
    IF slackChannel.name # <<>>
    THEN IF Head(slackChannel.name) = "#"
         THEN slackChannel.name
         ELSE <<"#">> \o slackChannel.name
    ELSE <<slackChannel.channelId>>

\* sync.ts: name || channelId
HandlerChannelName(slackChannel) ==
    IF slackChannel.name # <<>> THEN slackChannel.name
    ELSE <<slackChannel.channelId>>

\* what fetchRecentMessages resolves to, by the outcome of the Slack call
FetchResult(outcome, channelId) ==
    CASE outcome = "missing" -> [ok |-> TRUE]
      [] outcome = "empty" -> [ok |-> TRUE, messages |-> <<>>]
      [] OTHER -> [ok |-> TRUE, messages |-> MessagesOf(channelId)]

\* a variant that takes only a missing list for "no messages"
NoMessagesMissingOnly(h) == "messages" \notin DOMAIN h

\* !history.messages || history.messages.length === 0
NoMessages(h) == ("messages" \notin DOMAIN h) \/ Len(h.messages) = 0

FormatMessagesForSummary(messages) == [formatted |-> messages]

GenerateSummary(messagesText, prompt, channelName) ==
    [kind |-> "ai", text |-> messagesText, prompt |-> prompt, channel |-> channelName]

GenerateFallbackSummary(messages, reason) ==
    [kind |-> "fallback", messages |-> messages, reason |-> reason]

NoMessagesResult(mapping, slackChannel) ==
    [id |-> mapping.id, channelId |-> slackChannel.channelId,
     status |-> IF isTestMode THEN "No messages to test" ELSE "No messages to sync"]

FailedResult(mapping, slackChannel, errorMsg) ==
    [id |-> mapping.id, channelId |-> slackChannel.channelId,
     status |-> "Failed", error |-> errorMsg]

SuccessStatus == IF isTestMode THEN "Test Complete" ELSE "Synced"

SyncedResult(mapping, slackChannel, summary) ==
    [id |-> mapping.id, channelId |-> slackChannel.channelId,
     status |-> SuccessStatus,
     summary |-> summary,
     destination |-> [name |-> mapping.hubspotCompany.name,
                      id |-> mapping.hubspotCompany.companyId]]

CurMapping == mappings[mi]
CurChannel == mappings[mi].slackChannels[ci].slackChannel

\* Map.set: replaces the entry of the key, or appends it
MapSet(map, key, value) ==
    IF \E k \in 1..Len(map) : map[k].mappingId = key
    THEN [k \in 1..Len(map) |->
            IF map[k].mappingId = key THEN [mappingId |-> key, status |-> value]
            ELSE map[k]]
    ELSE Append(map, [mappingId |-> key, status |-> value])

\* the step record of the channel being processed
SetOutcome(field, value) ==
    [outcomes EXCEPT ![Len(outcomes)] = [@ EXCEPT ![field] = value]]

(***************************************************************************)
(* End of a channel: the loop bookkeeping of both entry points.            *)
(***************************************************************************)
\* sync.ts: the mapping's status is kept for the cron log, then the outer
\* loop goes on to the next mapping
EndOfMappingHandler(newSuccess, newError) ==
    /\ mappingStatuses' =
          IF isCronCall /\ cronLogId # 0
          THEN MapSet(mappingStatuses, CurMapping.id,
                      [success |-> newSuccess, error |-> newError])
          ELSE mappingStatuses
    /\ IF mi < Len(mappings)
       THEN /\ mi' = mi + 1
            /\ ci' = 1
            /\ mappingSuccess' = FALSE
            /\ mappingError' = NoError
            /\ pc' = "fetch"
       ELSE /\ mappingSuccess' = newSuccess
            /\ mappingError' = newError
            /\ pc' = "finalize"
            /\ UNCHANGED <<mi, ci>>
    /\ UNCHANGED response

\* mappingSyncService.ts: processMapping returns
EndOfMappingService(newResults, newSuccess, newError) ==
    /\ response' = [success |-> newSuccess, error |-> newError, results |-> newResults]
    /\ mappingSuccess' = newSuccess
    /\ mappingError' = newError
    /\ pc' = "done"
    /\ UNCHANGED <<mi, ci, mappingStatuses>>

\* the for loop over mapping.slackChannels moves on
FinishChannel(newResults, newSuccess, newError) ==
    /\ results' = newResults
    /\ IF ci < Len(CurMapping.slackChannels)
       THEN /\ ci' = ci + 1
            /\ mappingSuccess' = newSuccess
            /\ mappingError' = newError
            /\ pc' = "fetch"
            /\ UNCHANGED <<mi, mappingStatuses, response>>
       ELSE IF request.entry = "service"
            THEN EndOfMappingService(newResults, newSuccess, newError)
            ELSE EndOfMappingHandler(newSuccess, newError)

\* a variant of the catch block that keeps the latest error of the mapping
CatchChannelLastError(message) ==
    LET errorMsg == MessageOr(message, "Unknown error")
    IN FinishChannel(Append(results, FailedResult(CurMapping, CurChannel, errorMsg)),
                     mappingSuccess, errorMsg)

\* catch (error): a Failed result, the first error kept for the mapping
CatchChannel(message) ==
    LET errorMsg == MessageOr(message, "Unknown error")
    IN FinishChannel(Append(results, FailedResult(CurMapping, CurChannel, errorMsg)),
                     mappingSuccess,
                     IF mappingError = NoError THEN errorMsg ELSE mappingError)

\* a variant that pushes the success entry and leaves mappingSuccess alone
PushSyncedNoFlag(summary) ==
    FinishChannel(Append(results, SyncedResult(CurMapping, CurChannel, summary)),
                  mappingSuccess, mappingError)

\* results.push of the success entry; mappingSuccess = true
PushSynced(summary) ==
    FinishChannel(Append(results, SyncedResult(CurMapping, CurChannel, summary)),
                  TRUE, mappingError)

inputVars == << request, dbMappings, mappings, systemPrompt >>
auditVars == << cronLogId, cronLogs, cronLogMappings, counters, auditWrites >>
loopVars == << mi, ci, results, mappingSuccess, mappingError, mappingStatuses >>

(***************************************************************************)
(* The per-channel pipeline, one step per awaited call.                    *)
(***************************************************************************)
FetchOutcomes == {"throws", "throws-no-message", "missing", "empty", "messages"}

\* 1. fetchRecentMessages(channelId, days); no messages: a result, continue
FetchStep(days) ==
    /\ pc = "fetch"
    /\ \E o \in FetchOutcomes :
         /\ calls' = Append(calls, [op |-> "fetchRecentMessages",
                                    channelId |-> CurChannel.channelId, days |-> days])
         /\ outcomes' = Append(outcomes,
                [id |-> CurMapping.id, channelId |-> CurChannel.channelId,
                 fetch |-> o, summary |-> "none", note |-> "none", stamp |-> "none"])
         /\ IF o \in {"throws", "throws-no-message"}
            THEN /\ CatchChannel(IF o = "throws" THEN "Slack API error" ELSE "")
                 /\ UNCHANGED history
            ELSE LET h == FetchResult(o, CurChannel.channelId)
                 IN /\ history' = h
                    /\ IF NoMessages(h)
                       THEN FinishChannel(
                                Append(results, NoMessagesResult(CurMapping, CurChannel)),
                                mappingSuccess, mappingError)
                       ELSE /\ pc' = "summarize"
                            /\ UNCHANGED <<loopVars, response>>
    /\ UNCHANGED <<inputVars, auditVars, lastSyncedAt, summaryContent, fatalError>>

\* formatMessagesForSummary throws; generateSummary resolves; it throws and
\* the fallback is used; it throws and generateFallbackSummary throws too
SummaryOutcomes == {"format-throws", "ok", "throws", "fallback-throws"}

\* a variant that posts the note in test mode too
AfterSummaryAlwaysNote(content) ==
    /\ pc' = "note"
    /\ UNCHANGED <<loopVars, response>>

\* 4. the note is skipped in test mode and the success entry is pushed
AfterSummary(content) ==
    IF isTestMode
    THEN PushSynced(content)
    ELSE /\ pc' = "note"
         /\ UNCHANGED <<loopVars, response>>

\* a variant whose fallback is built without the channel's messages
SummaryContentNoMessages(o, messagesText, channelName) ==
    IF o = "ok"
    THEN GenerateSummary(messagesText, systemPrompt, channelName)
    ELSE GenerateFallbackSummary(<<>>, MessageOr("OpenAI error", "Unknown error"))

\* 3. try generateSummary, catch: the fallback listing of the raw messages
SummaryContent(o, messagesText, channelName) ==
    IF o = "ok"
    THEN GenerateSummary(messagesText, systemPrompt, channelName)
    ELSE GenerateFallbackSummary(history.messages,
                                 MessageOr("OpenAI error", "Unknown error"))

\* 2. formatMessagesForSummary; 3. the summary
SummarizeStep(channelName) ==
    /\ pc = "summarize"
    /\ \E o \in SummaryOutcomes :
         /\ outcomes' = SetOutcome("summary", o)
         /\ IF o = "format-throws"
            THEN /\ CatchChannel("Format error")
                 /\ UNCHANGED <<calls, summaryContent>>
            ELSE LET messagesText == FormatMessagesForSummary(history.messages)
                     call == [op |-> "generateSummary", text |-> messagesText,
                              prompt |-> systemPrompt, channel |-> channelName]
                     content == SummaryContent(o, messagesText, channelName)
                 IN /\ calls' = Append(calls, call)
                    /\ IF o = "fallback-throws"
                       THEN /\ CatchChannel("Fallback error")
                            /\ UNCHANGED summaryContent
                       ELSE /\ summaryContent' = content
                            /\ AfterSummary(content)
    /\ UNCHANGED <<inputVars, auditVars, lastSyncedAt, history, fatalError>>

\* 4. createCompanyNote(companyId, summaryContent)
NoteStep ==
    /\ pc = "note"
    /\ calls' = Append(calls, [op |-> "createCompanyNote",
                               companyId |-> CurMapping.hubspotCompany.companyId,
                               content |-> summaryContent])
    /\ \E ok \in BOOLEAN :
         /\ outcomes' = SetOutcome("note", IF ok THEN "ok" ELSE "throws")
         /\ IF ok
            THEN /\ pc' = "stamp"
                 /\ UNCHANGED <<loopVars, response>>
            ELSE CatchChannel("HubSpot API error")
    /\ UNCHANGED <<inputVars, auditVars, lastSyncedAt, history, summaryContent, fatalError>>

\* prisma.mapping.update({lastSyncedAt}); then the success entry
StampStep ==
    /\ pc = "stamp"
    /\ calls' = Append(calls, [op |-> "mapping.update", id |-> CurMapping.id])
    /\ \E ok \in BOOLEAN :
         /\ outcomes' = SetOutcome("stamp", IF ok THEN "ok" ELSE "throws")
         /\ IF ok
            THEN /\ lastSyncedAt' = [lastSyncedAt EXCEPT ![CurMapping.id] = @ + 1]
                 /\ PushSynced(summaryContent)
            ELSE /\ CatchChannel("Database error")
                 /\ UNCHANGED lastSyncedAt
    /\ UNCHANGED <<inputVars, auditVars, history, summaryContent, fatalError>>

(***************************************************************************)
(* processMapping (lib/services/mappingSyncService.ts).                    *)
(***************************************************************************)
PM_Fetch ==
    /\ request.entry = "service"
    /\ FetchStep(DaysToFetch(CurMapping.cadence))
    /\ UNCHANGED nonSyncVars

PM_Summarize ==
    /\ request.entry = "service"
    /\ SummarizeStep(ServiceChannelName(CurChannel))
    /\ UNCHANGED nonSyncVars

PM_CreateNote ==
    /\ request.entry = "service"
    /\ NoteStep
    /\ UNCHANGED nonSyncVars

PM_Stamp ==
    /\ request.entry = "service"
    /\ StampStep
    /\ UNCHANGED nonSyncVars

(***************************************************************************)
(* The inline loop of the sync handler (pages/api/sync.ts).                *)
(***************************************************************************)
H_Fetch ==
    /\ request.entry # "service"
    /\ FetchStep(1)
    /\ UNCHANGED nonSyncVars

H_Summarize ==
    /\ request.entry # "service"
    /\ SummarizeStep(HandlerChannelName(CurChannel))
    /\ UNCHANGED nonSyncVars

H_CreateNote ==
    /\ request.entry # "service"
    /\ NoteStep
    /\ UNCHANGED nonSyncVars

H_Stamp ==
    /\ request.entry # "service"
    /\ StampStep
    /\ UNCHANGED nonSyncVars

pipelineVars == << lastSyncedAt, history, summaryContent, calls, outcomes >>

\* a variant whose where clause leaves the cadence out
MatchesWhereAnyCadence(m) ==
    request.mappingId # 0 => m.id = request.mappingId

\* where: { id: Number(mappingId) } when given, cadence in today's cadences
\* for a cron call
MatchesWhere(m) ==
    /\ request.mappingId # 0 => m.id = request.mappingId
    /\ isCronCall => m.cadence \in request.cadenceResult.cadences

NewCronLog(id, status) ==
    [id |-> id, status |-> status, completedAt |-> status # "running",
     cadences |-> IF status = "running" THEN request.cadenceResult.cadences ELSE {},
     mappingsFound |-> 0, mappingsExecuted |-> 0, mappingsFailed |-> 0,
     errorMessage |-> IF status = "failed"
                      THEN MessageOr(fatalError.message, "Internal Server Error")
                      ELSE NoError]

\* req.headers['x-vercel-cron'] === '1'
isVercelCron == request.vercelCron

\* a GET is turned away when CRON_SECRET is set, the request is not marked
\* as a Vercel cron and its authorization header is not 'Bearer <secret>'
CronUnauthorized ==
    /\ request.cronSecret
    /\ ~isVercelCron
    /\ request.authorization # "exact"

\* the checks in front of the try block: the secret of a GET, the method;
\* then GET is the cron call, POST the manual call
H_Start ==
    /\ pc = "start"
    /\ request.entry # "service"
    /\ IF request.entry = "GET" /\ CronUnauthorized
       THEN /\ response' = [status |-> 401, error |-> "Unauthorized"]
            /\ pc' = "done"
       ELSE IF request.entry \notin {"GET", "POST"}
       THEN /\ response' = [status |-> 405]
            /\ pc' = "done"
       ELSE /\ pc' = IF isCronCall THEN "cronlog" ELSE "query"
            /\ UNCHANGED response
    /\ UNCHANGED <<inputVars, auditVars, loopVars, pipelineVars, fatalError>>
    /\ UNCHANGED nonSyncVars

\* prisma.cronLog.create({status: 'running', ...}), failure swallowed
H_CreateCronLog ==
    /\ pc = "cronlog"
    /\ \E ok \in BOOLEAN :
         IF ok
         THEN LET id == Len(cronLogs) + 1
              IN /\ cronLogs' = Append(cronLogs, NewCronLog(id, "running"))
                 /\ cronLogId' = id
                 /\ auditWrites' = Append(auditWrites,
                        [op |-> "create", id |-> id, status |-> "running"])
         ELSE UNCHANGED <<cronLogs, cronLogId, auditWrites>>
    /\ pc' = IF request.cadenceResult.shouldSync THEN "query" ELSE "nosync"
    /\ UNCHANGED <<inputVars, cronLogMappings, counters, loopVars, pipelineVars,
                   fatalError, response>>
    /\ UNCHANGED nonSyncVars

\* a variant without the early return
H_NoSyncFallsThrough ==
    /\ pc = "nosync"
    /\ \E ok \in BOOLEAN :
         IF cronLogId # 0 /\ ok
         THEN /\ cronLogs' = [cronLogs EXCEPT ![cronLogId] =
                                [@ EXCEPT !.status = "completed", !.completedAt = TRUE]]
              /\ auditWrites' = Append(auditWrites,
                     [op |-> "update", id |-> cronLogId, status |-> "completed"])
         ELSE UNCHANGED <<cronLogs, auditWrites>>
    /\ pc' = "query"
    /\ UNCHANGED <<inputVars, cronLogId, cronLogMappings, counters, loopVars,
                   pipelineVars, fatalError, response>>
    /\ UNCHANGED nonSyncVars

\* !shouldSync: the log is marked completed and the handler returns early
H_NoSync ==
    /\ pc = "nosync"
    /\ \E ok \in BOOLEAN :
         IF cronLogId # 0 /\ ok
         THEN /\ cronLogs' = [cronLogs EXCEPT ![cronLogId] =
                                [@ EXCEPT !.status = "completed", !.completedAt = TRUE]]
              /\ auditWrites' = Append(auditWrites,
                     [op |-> "update", id |-> cronLogId, status |-> "completed"])
         ELSE UNCHANGED <<cronLogs, auditWrites>>
    /\ response' = [status |-> 200,
                    message |-> "No mappings scheduled for sync today",
                    results |-> <<>>]
    /\ pc' = "done"
    /\ UNCHANGED <<inputVars, cronLogId, cronLogMappings, counters, loopVars,
                   pipelineVars, fatalError>>
    /\ UNCHANGED nonSyncVars

\* prisma.mapping.findMany({where, include}); a throw goes to the outer catch
H_FindMappings ==
    /\ pc = "query"
    /\ \E o \in {"ok", "throws", "throws-no-message"} :
         /\ calls' = Append(calls, [op |-> "mapping.findMany",
                                    id |-> request.mappingId,
                                    cadences |-> IF isCronCall
                                                 THEN request.cadenceResult.cadences
                                                 ELSE {},
                                    outcome |-> o])
         /\ IF o = "ok"
            THEN /\ mappings' = SelectSeq(dbMappings, MatchesWhere)
                 /\ pc' = IF isCronCall /\ cronLogId # 0 THEN "found" ELSE "prompt"
                 /\ UNCHANGED fatalError
            ELSE /\ fatalError' = [thrown |-> TRUE,
                                   message |-> IF o = "throws" THEN "Database error"
                                               ELSE ""]
                 /\ pc' = "catch"
                 /\ UNCHANGED mappings
    /\ UNCHANGED <<request, dbMappings, systemPrompt, auditVars, loopVars,
                   lastSyncedAt, history, summaryContent, outcomes, response>>
    /\ UNCHANGED nonSyncVars

\* a variant that lets a failed mappingsFound update reach the outer catch
H_UpdateFoundRethrows ==
    /\ pc = "found"
    /\ \E ok \in BOOLEAN :
         IF ok
         THEN /\ cronLogs' = [cronLogs EXCEPT ![cronLogId] =
                                [@ EXCEPT !.mappingsFound = Len(mappings)]]
              /\ auditWrites' = Append(auditWrites,
                     [op |-> "update", id |-> cronLogId,
                      status |-> cronLogs[cronLogId].status])
              /\ pc' = "prompt"
              /\ UNCHANGED fatalError
         ELSE /\ fatalError' = [thrown |-> TRUE, message |-> "Database error"]
              /\ pc' = "catch"
              /\ UNCHANGED <<cronLogs, auditWrites>>
    /\ UNCHANGED <<inputVars, cronLogId, cronLogMappings, counters, loopVars,
                   pipelineVars, response>>
    /\ UNCHANGED nonSyncVars

\* prisma.cronLog.update({mappingsFound}), failure swallowed
H_UpdateFound ==
    /\ pc = "found"
    /\ \E ok \in BOOLEAN :
         IF ok
         THEN /\ cronLogs' = [cronLogs EXCEPT ![cronLogId] =
                                [@ EXCEPT !.mappingsFound = Len(mappings)]]
              /\ auditWrites' = Append(auditWrites,
                     [op |-> "update", id |-> cronLogId,
                      status |-> cronLogs[cronLogId].status])
         ELSE UNCHANGED <<cronLogs, auditWrites>>
    /\ pc' = "prompt"
    /\ UNCHANGED <<inputVars, cronLogId, cronLogMappings, counters, loopVars,
                   pipelineVars, fatalError, response>>
    /\ UNCHANGED nonSyncVars

PromptOutcomes == {"prompt-throws", "usermap-throws", "no-prompt", "prompt"}

\* prisma.prompt.findFirst({isActive: true}) and getUserMap(), once for all
\* mappings; then the loop over the mappings starts
H_LoadPrompt ==
    /\ pc = "prompt"
    /\ \E o \in PromptOutcomes :
         /\ calls' = Append(calls, [op |-> "prompt.findFirst", outcome |-> o])
         /\ IF o \in {"prompt-throws", "usermap-throws"}
            THEN /\ fatalError' = [thrown |-> TRUE, message |-> "Database error"]
                 /\ pc' = "catch"
                 /\ UNCHANGED systemPrompt
            ELSE /\ systemPrompt' = IF o = "prompt" THEN "Custom prompt" ELSE ""
                 /\ pc' = IF Len(mappings) = 0 THEN "finalize" ELSE "fetch"
                 /\ UNCHANGED fatalError
    /\ UNCHANGED <<request, dbMappings, mappings, auditVars, loopVars,
                   lastSyncedAt, history, summaryContent, outcomes, response>>
    /\ UNCHANGED nonSyncVars

\* a variant that counts an entry whether or not its row was written
H_CreateChildCountsAll ==
    /\ pc = "finalize"
    /\ isCronCall /\ cronLogId # 0
    /\ counters.k <= Len(mappingStatuses)
    /\ LET e == mappingStatuses[counters.k]
       IN \E ok \in BOOLEAN :
            /\ IF ok
               THEN cronLogMappings' = Append(cronLogMappings,
                        [cronLogId |-> cronLogId, mappingId |-> e.mappingId,
                         status |-> IF e.status.success THEN "success" ELSE "failed",
                         errorMessage |-> e.status.error])
               ELSE UNCHANGED cronLogMappings
            /\ counters' =
                   IF e.status.success
                   THEN [counters EXCEPT !.k = @ + 1, !.executed = @ + 1]
                   ELSE [counters EXCEPT !.k = @ + 1, !.failed = @ + 1]
    /\ UNCHANGED <<inputVars, cronLogId, cronLogs, auditWrites, loopVars,
                   pipelineVars, fatalError, response, pc>>
    /\ UNCHANGED nonSyncVars

\* one prisma.cronLogMapping.create per entry of mappingStatuses, failure
\* swallowed; the counters count the rows written
H_CreateChild ==
    /\ pc = "finalize"
    /\ isCronCall /\ cronLogId # 0
    /\ counters.k <= Len(mappingStatuses)
    /\ LET e == mappingStatuses[counters.k]
       IN \E ok \in BOOLEAN :
            IF ok
            THEN /\ cronLogMappings' = Append(cronLogMappings,
                        [cronLogId |-> cronLogId, mappingId |-> e.mappingId,
                         status |-> IF e.status.success THEN "success" ELSE "failed",
                         errorMessage |-> e.status.error])
                 /\ counters' =
                        IF e.status.success
                        THEN [counters EXCEPT !.k = @ + 1, !.executed = @ + 1]
                        ELSE [counters EXCEPT !.k = @ + 1, !.failed = @ + 1]
            ELSE /\ counters' = [counters EXCEPT !.k = @ + 1]
                 /\ UNCHANGED cronLogMappings
    /\ UNCHANGED <<inputVars, cronLogId, cronLogs, auditWrites, loopVars,
                   pipelineVars, fatalError, response, pc>>
    /\ UNCHANGED nonSyncVars

\* a variant whose final update sets the status and forgets completedAt
H_FinalUpdateNoCompletedAt ==
    /\ pc = "finalize"
    /\ isCronCall /\ cronLogId # 0
    /\ counters.k > Len(mappingStatuses)
    /\ \E ok \in BOOLEAN :
         IF ok
         THEN /\ cronLogs' = [cronLogs EXCEPT ![cronLogId] =
                                [@ EXCEPT !.status = "completed",
                                          !.mappingsExecuted = counters.executed,
                                          !.mappingsFailed = counters.failed]]
              /\ auditWrites' = Append(auditWrites,
                     [op |-> "update", id |-> cronLogId, status |-> "completed"])
         ELSE UNCHANGED <<cronLogs, auditWrites>>
    /\ pc' = "respond"
    /\ UNCHANGED <<inputVars, cronLogId, cronLogMappings, counters, loopVars,
                   pipelineVars, fatalError, response>>
    /\ UNCHANGED nonSyncVars

\* prisma.cronLog.update({status: 'completed', completedAt, counts}),
\* failure swallowed
H_FinalUpdate ==
    /\ pc = "finalize"
    /\ isCronCall /\ cronLogId # 0
    /\ counters.k > Len(mappingStatuses)
    /\ \E ok \in BOOLEAN :
         IF ok
         THEN /\ cronLogs' = [cronLogs EXCEPT ![cronLogId] =
                                [@ EXCEPT !.status = "completed",
                                          !.completedAt = TRUE,
                                          !.mappingsExecuted = counters.executed,
                                          !.mappingsFailed = counters.failed]]
              /\ auditWrites' = Append(auditWrites,
                     [op |-> "update", id |-> cronLogId, status |-> "completed"])
         ELSE UNCHANGED <<cronLogs, auditWrites>>
    /\ pc' = "respond"
    /\ UNCHANGED <<inputVars, cronLogId, cronLogMappings, counters, loopVars,
                   pipelineVars, fatalError, response>>
    /\ UNCHANGED nonSyncVars

\* res.status(200).json({message: 'Sync process completed', results})
H_Respond ==
    /\ \/ pc = "respond"
       \/ pc = "finalize" /\ ~(isCronCall /\ cronLogId # 0)
    /\ response' = [status |-> 200, message |-> "Sync process completed",
                    results |-> results]
    /\ pc' = "done"
    /\ UNCHANGED <<inputVars, auditVars, loopVars, pipelineVars, fatalError>>
    /\ UNCHANGED nonSyncVars

\* a variant that answers with the message of the error it caught
H_CatchLeaks ==
    /\ pc = "catch"
    /\ \E ok \in BOOLEAN :
         IF isCronCall /\ ok
         THEN IF cronLogId # 0
              THEN /\ cronLogs' = [cronLogs EXCEPT ![cronLogId] =
                        [@ EXCEPT !.status = "failed",
                                  !.completedAt = TRUE,
                                  !.errorMessage =
                                      MessageOr(fatalError.message, "Internal Server Error")]]
                   /\ auditWrites' = Append(auditWrites,
                          [op |-> "update", id |-> cronLogId, status |-> "failed"])
              ELSE LET id == Len(cronLogs) + 1
                   IN /\ cronLogs' = Append(cronLogs, NewCronLog(id, "failed"))
                      /\ auditWrites' = Append(auditWrites,
                             [op |-> "create", id |-> id, status |-> "failed"])
         ELSE UNCHANGED <<cronLogs, auditWrites>>
    /\ response' = [status |-> 500,
                    error |-> MessageOr(fatalError.message, "Internal Server Error")]
    /\ pc' = "done"
    /\ UNCHANGED <<inputVars, cronLogId, cronLogMappings, counters, loopVars,
                   pipelineVars, fatalError>>
    /\ UNCHANGED nonSyncVars

\* the outer catch: the run's log is marked failed, or a failed log is
\* created when none exists; the response is a generic 500
H_Catch ==
    /\ pc = "catch"
    /\ \E ok \in BOOLEAN :
         IF isCronCall /\ ok
         THEN IF cronLogId # 0
              THEN /\ cronLogs' = [cronLogs EXCEPT ![cronLogId] =
                        [@ EXCEPT !.status = "failed",
                                  !.completedAt = TRUE,
                                  !.errorMessage =
                                      MessageOr(fatalError.message, "Internal Server Error")]]
                   /\ auditWrites' = Append(auditWrites,
                          [op |-> "update", id |-> cronLogId, status |-> "failed"])
              ELSE LET id == Len(cronLogs) + 1
                   IN /\ cronLogs' = Append(cronLogs, NewCronLog(id, "failed"))
                      /\ auditWrites' = Append(auditWrites,
                             [op |-> "create", id |-> id, status |-> "failed"])
         ELSE UNCHANGED <<cronLogs, auditWrites>>
    /\ response' = [status |-> 500, error |-> "Internal Server Error"]
    /\ pc' = "done"
    /\ UNCHANGED <<inputVars, cronLogId, cronLogMappings, counters, loopVars,
                   pipelineVars, fatalError>>
    /\ UNCHANGED nonSyncVars

\* a caller hands one mapping, the prompt and the test flag to processMapping
PM_Call ==
    /\ pc = "start"
    /\ request.entry = "service"
    /\ \E k \in 1..Len(dbMappings) : mappings' = << dbMappings[k] >>
    /\ \E p \in {"", "Custom prompt"} : systemPrompt' = p
    /\ pc' = "fetch"
    /\ UNCHANGED <<request, dbMappings, auditVars, loopVars, pipelineVars,
                   fatalError, response>>
    /\ UNCHANGED nonSyncVars

(***************************************************************************)
(* The sync specification.                                                 *)
(***************************************************************************)
\* what getCadencesForToday returns when it is not called
NoCadenceResult == [shouldSync |-> FALSE, cadences |-> {}]

\* the requests that pass the checks in front of the try block: a GET with
\* the bearer secret, a POST of a signed-in user, a call of processMapping
Requests ==
    [entry : {"GET"}, test : {"absent", "true"}, mappingId : {0, 1},
     cadenceResult : CadenceResults,
     cronSecret : {TRUE}, authorization : {"exact"}, vercelCron : {FALSE},
     session : {FALSE}]
    \cup
    [entry : {"POST"}, test : TestValues, mappingId : MappingIdValues,
     cadenceResult : {NoCadenceResult},
     cronSecret : {TRUE}, authorization : {"absent"}, vercelCron : {FALSE},
     session : {TRUE}]
    \cup
    [entry : {"service"}, test : {"absent", "true"}, mappingId : {0},
     cadenceResult : {NoCadenceResult},
     cronSecret : {TRUE}, authorization : {"absent"}, vercelCron : {FALSE},
     session : {TRUE}]

\* the requests as they may arrive: with or without CRON_SECRET configured,
\* with no, a wrong or the right authorization header, with or without the
\* x-vercel-cron header, with or without a session, with another method
GateRequests ==
    [entry : {"GET"}, test : {"absent"}, mappingId : {0},
     cadenceResult : {NoCadenceResult, [shouldSync |-> TRUE, cadences |-> {"daily"}]},
     cronSecret : BOOLEAN, authorization : {"absent", "wrong", "exact"},
     vercelCron : BOOLEAN, session : {FALSE}]
    \cup
    [entry : {"POST", "PUT"}, test : {"absent"}, mappingId : {0},
     cadenceResult : {NoCadenceResult},
     cronSecret : {TRUE}, authorization : {"absent"}, vercelCron : {FALSE},
     session : BOOLEAN]
    \cup
    [entry : {"service"}, test : {"absent"}, mappingId : {0},
     cadenceResult : {NoCadenceResult},
     cronSecret : {TRUE}, authorization : {"absent"}, vercelCron : {FALSE},
     session : {TRUE}]

\* the log of an earlier, completed run
EarlierCronLog ==
    [id |-> 1, status |-> "completed", completedAt |-> TRUE, cadences |-> {"daily"},
     mappingsFound |-> 0, mappingsExecuted |-> 0, mappingsFailed |-> 0,
     errorMessage |-> NoError]

\* ---- the other handlers at rest: no request of theirs is in flight
\* before: the table as the request found it, <<>> while no request runs
IdleSlot ==
    [pc |-> "idle", op |-> "none", id |-> 0, isActive |-> FALSE, before |-> <<>>]

NoResponse ==
    [op |-> "none", id |-> 0, status |-> 0, activating |-> FALSE, before |-> <<>>]

PromptIdle ==
    /\ prompts = [p \in 1..MaxPrompts |-> "none"]
    /\ promptNextId = 1
    /\ promptReqs = [s \in 1..MaxRequests |-> IdleSlot]
    /\ promptSerial = TRUE
    /\ promptLast = NoResponse
    /\ promptStartedSingle = TRUE

NoMappingRow == [present |-> FALSE, hubspotCompanyId |-> 0, slackChannelIds |-> {}]

NoDelete ==
    [table |-> "none", id |-> 0, status |-> 0, count |-> 0, rowsBefore |-> {}]

DeleteIdle ==
    /\ slackChannelRows = {}
    /\ companyRows = {}
    /\ mappingRows = [m \in 1..MaxMappingRows |-> NoMappingRow]
    /\ deleteLast = NoDelete

WebhookIdle ==
    webhook = [pc |-> "idle"]

CadenceIdle ==
    today = [pc |-> "idle"]

BulkIdle ==
    /\ provider = [kind |-> "none"]
    /\ syncedRows = <<>>
    /\ bulk = [pc |-> "idle"]

ProcessIdle ==
    /\ fireHookLog = [present |-> FALSE]
    /\ meetingNotes = <<>>
    /\ processReqs = <<>>

SyncIdle ==
    /\ request = [entry |-> "GET", test |-> "absent", mappingId |-> 0,
                  cadenceResult |-> [shouldSync |-> FALSE, cadences |-> {}],
                  cronSecret |-> TRUE, authorization |-> "exact",
                  vercelCron |-> FALSE, session |-> FALSE]
    /\ dbMappings = <<>>
    /\ lastSyncedAt = [id \in 1..Len(MappingCatalogue) |-> 0]
    /\ pc = "idle"
    /\ mappings = <<>>
    /\ mi = 1
    /\ ci = 1
    /\ systemPrompt = ""
    /\ history = [ok |-> TRUE]
    /\ summaryContent = [kind |-> "none"]
    /\ results = <<>>
    /\ mappingSuccess = FALSE
    /\ mappingError = NoError
    /\ mappingStatuses = <<>>
    /\ fatalError = [thrown |-> FALSE, message |-> ""]
    /\ cronLogId = 0
    /\ cronLogs = <<>>
    /\ cronLogMappings = <<>>
    /\ counters = [k |-> 1, executed |-> 0, failed |-> 0]
    /\ response = [status |-> 0]
    /\ calls = <<>>
    /\ outcomes = <<>>
    /\ auditWrites = <<>>

SyncInitWith(requests) ==
    /\ request \in requests
    /\ dbMappings \in Databases
    /\ lastSyncedAt = [id \in 1..Len(MappingCatalogue) |-> 0]
    /\ pc = "start"
    /\ mappings = <<>>
    /\ mi = 1
    /\ ci = 1
    /\ systemPrompt = ""
    /\ history = [ok |-> TRUE]
    /\ summaryContent = [kind |-> "none"]
    /\ results = <<>>
    /\ mappingSuccess = FALSE
    /\ mappingError = NoError
    /\ mappingStatuses = <<>>
    /\ fatalError = [thrown |-> FALSE, message |-> ""]
    /\ cronLogId = 0
    /\ cronLogs = << EarlierCronLog >>
    /\ cronLogMappings = <<>>
    /\ counters = [k |-> 1, executed |-> 0, failed |-> 0]
    /\ response = [status |-> 0]
    /\ calls = <<>>
    /\ outcomes = <<>>
    /\ auditWrites = <<>>

SyncNext ==
    \/ H_Start
    \/ H_CreateCronLog
    \/ H_NoSync
    \/ H_FindMappings
    \/ H_UpdateFound
    \/ H_LoadPrompt
    \/ H_Fetch
    \/ H_Summarize
    \/ H_CreateNote
    \/ H_Stamp
    \/ H_CreateChild
    \/ H_FinalUpdate
    \/ H_Respond
    \/ H_Catch
    \/ PM_Call
    \/ PM_Fetch
    \/ PM_Summarize
    \/ PM_CreateNote
    \/ PM_Stamp

SyncInit == SyncInitWith(Requests)

Init == SyncInit /\ PromptIdle /\ DeleteIdle /\ WebhookIdle /\ CadenceIdle /\ BulkIdle /\ ProcessIdle

Spec == Init /\ [][SyncNext]_vars

\* the same handler, over the requests as they may arrive
GateInit ==
    SyncInitWith(GateRequests) /\ PromptIdle /\ DeleteIdle /\ WebhookIdle /\ CadenceIdle /\ BulkIdle /\ ProcessIdle

SpecGate == GateInit /\ [][SyncNext]_vars

(***************************************************************************)
(* Properties of the sync orchestrator.                                    *)
(***************************************************************************)
RECURSIVE FlatChannels(_)
\* the channel ids of a list of mappings, in processing order
FlatChannels(ms) ==
    IF ms = <<>> THEN <<>>
    ELSE [k \in 1..Len(Head(ms).slackChannels) |->
            Head(ms).slackChannels[k].slackChannel.channelId]
         \o FlatChannels(Tail(ms))

ChannelIdsOf(rs) == [k \in 1..Len(rs) |-> rs[k].channelId]

\* some channel of the mapping ended 'Synced' ('Test Complete' in test mode)
HasSuccess(rs, id) ==
    \E k \in 1..Len(rs) :
        /\ rs[k].id = id
        /\ rs[k].status = (IF isTestMode THEN "Test Complete" ELSE "Synced")

\* a step of the channel threw out of the try block
Threw(o) ==
    \/ o.fetch \in {"throws", "throws-no-message"}
    \/ o.summary \in {"format-throws", "fallback-throws"}
    \/ o.note = "throws"
    \/ o.stamp = "throws"

HandlerCompleted ==
    /\ request.entry # "service"
    /\ pc = "done"
    /\ response.status = 200
    /\ response.message = "Sync process completed"

ServiceReturned == request.entry = "service" /\ pc = "done"

InLoop == pc \in {"fetch", "summarize", "note", "stamp"}

\* C1: a mapping is reported successful exactly when one of its channels
\* ended 'Synced' ('Test Complete' in test mode); a channel one of whose steps
\* throws gets a 'Failed' result and the channels after it are still
\* processed, so every channel of every processed mapping has its result.
C1_SuccessIffAChannelSynced ==
    /\ ServiceReturned =>
          /\ response.success = HasSuccess(response.results, mappings[1].id)
          /\ ChannelIdsOf(response.results) = FlatChannels(mappings)
    /\ HandlerCompleted => ChannelIdsOf(response.results) = FlatChannels(mappings)
    /\ \A k \in 1..Len(mappingStatuses) :
          mappingStatuses[k].status.success
             = HasSuccess(results, mappingStatuses[k].mappingId)
    /\ \A k \in 1..Len(cronLogMappings) :
          (cronLogMappings[k].status = "success")
             = HasSuccess(results, cronLogMappings[k].mappingId)
    /\ (InLoop \/ (pc = "finalize" /\ mappings # <<>>)) =>
          mappingSuccess = HasSuccess(results, CurMapping.id)
    /\ \A k \in 1..Len(results) :
          (results[k].status = "Failed") = Threw(outcomes[k])

\* a first channel whose fetch threw, a second that was synced, and the
\* mapping reported successful
C1_Witness ==
    /\ ServiceReturned
    /\ Len(response.results) = 2
    /\ outcomes[1].fetch = "throws"
    /\ response.results[1].status = "Failed"
    /\ response.results[2].status = "Synced"
    /\ response.success

\* C2: in test mode no note is created and no lastSyncedAt is stamped,
\* whatever fetch and summarization do; a channel that reaches the end of the
\* pipeline is 'Test Complete', never 'Synced'.
C2_TestModeWritesNothing ==
    isTestMode =>
       /\ \A k \in 1..Len(calls) :
             calls[k].op \notin {"createCompanyNote", "mapping.update"}
       /\ \A id \in DOMAIN lastSyncedAt : lastSyncedAt[id] = 0
       /\ \A k \in 1..Len(results) :
             /\ results[k].status # "Synced"
             /\ outcomes[k].summary \in {"ok", "throws"} =>
                   results[k].status = "Test Complete"

C2_Witness ==
    /\ isTestMode
    /\ request.entry = "POST"
    /\ pc = "done"
    /\ \E k \in 1..Len(results) :
          /\ results[k].status = "Test Complete"
          /\ outcomes[k].summary = "throws"

CountCalls(op, id) ==
    Cardinality({k \in 1..Len(calls) : calls[k].op = op /\ calls[k].id = id})

ChannelsBefore(m, c) ==
    SumSeq([k \in 1..(m - 1) |-> Len(mappings[k].slackChannels)]) + c - 1

\* C3: a channel whose fetch returns no messages (a missing or an empty
\* list) gets exactly one result, 'No messages to sync' ('No messages to
\* test' in test mode); no summary is requested and no note is posted for its
\* messages, lastSyncedAt is stamped only for channels that had messages, and
\* the loop is at the next channel.
C3_NoMessagesIsAResult ==
    /\ \A k \in 1..Len(results) :
          outcomes[k].fetch \in {"missing", "empty"} =>
             /\ results[k] = [id |-> outcomes[k].id,
                              channelId |-> outcomes[k].channelId,
                              status |-> IF isTestMode THEN "No messages to test"
                                         ELSE "No messages to sync"]
             /\ Cardinality({j \in 1..Len(results) :
                                results[j].channelId = outcomes[k].channelId}) = 1
             /\ outcomes[k].summary = "none"
             /\ outcomes[k].note = "none"
             /\ outcomes[k].stamp = "none"
             /\ \A j \in 1..Len(calls) :
                   /\ calls[j].op = "generateSummary" =>
                         calls[j].text
                            # FormatMessagesForSummary(MessagesOf(outcomes[k].channelId))
                   /\ calls[j].op = "createCompanyNote"
                         /\ calls[j].content.kind = "ai" =>
                         calls[j].content.text
                            # FormatMessagesForSummary(MessagesOf(outcomes[k].channelId))
                   /\ calls[j].op = "createCompanyNote"
                         /\ calls[j].content.kind = "fallback" =>
                         calls[j].content.messages # MessagesOf(outcomes[k].channelId)
    /\ \A id \in DOMAIN lastSyncedAt :
          /\ lastSyncedAt[id] <= Cardinality({k \in 1..Len(outcomes) :
                                    outcomes[k].id = id /\ outcomes[k].fetch = "messages"})
          /\ CountCalls("mapping.update", id)
                <= Cardinality({k \in 1..Len(outcomes) :
                                    outcomes[k].id = id /\ outcomes[k].fetch = "messages"})
    /\ pc = "fetch" => Len(results) = ChannelsBefore(mi, ci)

\* a channel without messages followed by a channel that was synced
C3_Witness ==
    /\ HandlerCompleted
    /\ Len(results) = 2
    /\ outcomes[1].fetch = "missing"
    /\ results[1].status = "No messages to sync"
    /\ results[2].status = "Synced"

\* the deterministic fallback listing of a channel's raw messages
FallbackOf(channelId) == GenerateFallbackSummary(MessagesOf(channelId), "OpenAI error")

ExpectedResult(o) ==
    LET m == CHOOSE x \in {dbMappings[k] : k \in 1..Len(dbMappings)} : x.id = o.id
        ch == CHOOSE c \in {m.slackChannels[k].slackChannel :
                              k \in 1..Len(m.slackChannels)} :
                 c.channelId = o.channelId
        content ==
           IF o.summary = "ok"
           THEN GenerateSummary(FormatMessagesForSummary(MessagesOf(o.channelId)),
                                systemPrompt, HandlerChannelName(ch))
           ELSE FallbackOf(o.channelId)
    IN CASE o.fetch = "throws" -> FailedResult(m, ch, "Slack API error")
         [] o.fetch = "throws-no-message" -> FailedResult(m, ch, "Unknown error")
         [] o.fetch \in {"missing", "empty"} -> NoMessagesResult(m, ch)
         [] o.summary = "format-throws" -> FailedResult(m, ch, "Format error")
         [] o.summary = "fallback-throws" -> FailedResult(m, ch, "Fallback error")
         [] o.note = "throws" -> FailedResult(m, ch, "HubSpot API error")
         [] o.stamp = "throws" -> FailedResult(m, ch, "Database error")
         [] OTHER -> SyncedResult(m, ch, content)

\* a query of the surrounding control logic threw
ControlThrew ==
    \E k \in 1..Len(calls) :
        /\ calls[k].op \in {"mapping.findMany", "prompt.findFirst"}
        /\ calls[k].outcome \notin {"ok", "no-prompt", "prompt"}

FetchedChannels ==
    LET fs == SelectSeq(calls, LAMBDA c : c.op = "fetchRecentMessages")
    IN [k \in 1..Len(fs) |-> fs[k].channelId]

\* C9: the outcome of a scheduled run is a function of the request, the
\* database and what the queries and adapters did, and of nothing the audit
\* writes did: whichever audit writes fail, the status and the results are
\* those of the run without audit failures, and the same channels of the
\* same mappings are fetched.
C9_AuditFailuresChangeNothing ==
    (isCronCall /\ pc = "done") =>
       IF ~request.cadenceResult.shouldSync
       THEN /\ response = [status |-> 200,
                           message |-> "No mappings scheduled for sync today",
                           results |-> <<>>]
            /\ calls = <<>>
       ELSE IF ControlThrew
       THEN response = [status |-> 500, error |-> "Internal Server Error"]
       ELSE /\ response = [status |-> 200, message |-> "Sync process completed",
                           results |-> [k \in 1..Len(outcomes) |->
                                           ExpectedResult(outcomes[k])]]
            /\ FetchedChannels = FlatChannels(SelectSeq(dbMappings, MatchesWhere))
            /\ [k \in 1..Len(outcomes) |-> outcomes[k].channelId] = FetchedChannels

\* a run that completed with results although the mappingsFound update, the
\* child rows and the final update all failed
C9_Witness ==
    /\ isCronCall
    /\ pc = "done"
    /\ response.status = 200
    /\ Len(results) = 2
    /\ cronLogId # 0
    /\ cronLogs[cronLogId].status = "running"
    /\ cronLogs[cronLogId].mappingsFound = 0
    /\ cronLogMappings = <<>>

Updates(status) ==
    {i \in 1..Len(auditWrites) :
        auditWrites[i].op = "update" /\ auditWrites[i].status = status}

\* C10 as stated: every CronLog row is created 'running' and is mutated once
\* afterwards, by the write that sets 'completed' or 'failed'; nothing else
\* writes the row, and nothing writes it after that.
C10_Original ==
    /\ \A i \in 1..Len(auditWrites) :
          /\ auditWrites[i].op = "create" => auditWrites[i].status = "running"
          /\ auditWrites[i].op = "update" =>
                auditWrites[i].status \in {"completed", "failed"}
    /\ \A i \in 1..Len(auditWrites) : \A j \in 1..Len(auditWrites) :
          i < j => auditWrites[i].status = "running"

\* C10 amended: a run creates at most one CronLog row: 'running' at its
\* start or, when that creation failed and the run ends in the outer catch,
\* 'failed' with completedAt set. A row created 'running' is written at most
\* twice afterwards: at most once by the mappingsFound update, which leaves it
\* 'running', and then at most once by the final write that sets 'completed'
\* or 'failed' with completedAt. Nothing is written after the final write,
\* and a row that is 'completed' or 'failed' is never written again.
C10_CronLogWrites ==
    /\ \A i \in 1..Len(auditWrites) :
          /\ auditWrites[i].op = "create" =>
                /\ i = 1
                /\ auditWrites[i].status \in {"running", "failed"}
                /\ auditWrites[i].status = "running" => cronLogId = auditWrites[i].id
                /\ auditWrites[i].status = "failed" =>
                      /\ cronLogId = 0
                      /\ pc = "done"
                      /\ Len(auditWrites) = 1
          /\ auditWrites[i].op = "update" =>
                /\ i > 1
                /\ auditWrites[i].id = cronLogId
                /\ auditWrites[1] = [op |-> "create", id |-> cronLogId,
                                     status |-> "running"]
    /\ \A i \in 1..Len(auditWrites) : \A j \in 1..Len(auditWrites) :
          i < j => auditWrites[i].status = "running"
    /\ Cardinality(Updates("running")) <= 1
    /\ Cardinality(Updates("completed") \cup Updates("failed")) <= 1
    /\ cronLogs[1] = EarlierCronLog
    /\ Len(cronLogs) = 1 + Cardinality({i \in 1..Len(auditWrites) :
                                           auditWrites[i].op = "create"})
    /\ \A i \in 1..Len(auditWrites) :
          LET row == cronLogs[auditWrites[i].id]
          IN /\ row.status = auditWrites[Len(auditWrites)].status
             /\ row.completedAt = (row.status # "running")

\* a row that was created, had its mappingsFound set and was then completed
C10_Witness ==
    /\ pc = "done"
    /\ Len(auditWrites) = 3
    /\ auditWrites[2] = [op |-> "update", id |-> cronLogId, status |-> "running"]
    /\ auditWrites[3] = [op |-> "update", id |-> cronLogId, status |-> "completed"]
    /\ cronLogs[cronLogId].mappingsFound > 0

(***************************************************************************)
(* The prompt handlers: pages/api/prompts/index.ts, prompts/[id].ts and    *)
(* prompts/[id]/activate.ts.  Each database call of a handler is awaited   *)
(* on its own, none runs inside a transaction, so another request may run  *)
(* between two calls of one handler unless promptSerial holds.             *)
(***************************************************************************)
ActiveIds(table) == {p \in DOMAIN table : table[p] = "active"}

\* an update of a single row in the place of updateMany
DeactivateFirst(table) ==
    [p \in DOMAIN table |->
        IF table[p] = "active" /\ \A q \in ActiveIds(table) : p <= q
        THEN "inactive" ELSE table[p]]

\* updateMany({ where: { isActive: true }, data: { isActive: false } })
DeactivateAll(table) ==
    [p \in DOMAIN table |-> IF table[p] = "active" THEN "inactive" ELSE table[p]]

\* updateMany({ where: { isActive: true, id: { not: id } }, data: { isActive: false } })
DeactivateOthers(table, id) ==
    [p \in DOMAIN table |->
        IF table[p] = "active" /\ p # id THEN "inactive" ELSE table[p]]

\* isActive: isActive || false
StoredActivity(isActive) == IF isActive THEN "active" ELSE "inactive"

AllSlotsIdle == \A t \in 1..MaxRequests : promptReqs[t].pc = "idle"

\* one at a time, the requests all run in the first slot
MayStart(s) ==
    /\ promptReqs[s].pc = "idle"
    /\ promptSerial => (s = 1 /\ AllSlotsIdle)

\* the table as the request in slot s found it; kept only for requests that
\* are executed one at a time, where "before the request" is one table
TableBefore(s) ==
    IF ~promptSerial THEN <<>>
    ELSE IF promptReqs[s].pc = "idle" THEN prompts
    ELSE promptReqs[s].before

PromptRespond(s, op, id, status, activating) ==
    /\ promptLast' = [op |-> op, id |-> id, status |-> status,
                      activating |-> activating, before |-> TableBefore(s)]
    /\ promptReqs' = [promptReqs EXCEPT ![s] = IdleSlot]

PromptFail(s, op, status) == PromptRespond(s, op, 0, status, FALSE)

PromptContinue(s, nextPc, op, id, isActive) ==
    /\ promptReqs' = [promptReqs EXCEPT
                        ![s] = [pc |-> nextPc, op |-> op, id |-> id,
                                isActive |-> isActive, before |-> TableBefore(s)]]
    /\ UNCHANGED promptLast

PostsInFlight == Cardinality({t \in 1..MaxRequests : promptReqs[t].op = "POST"})

\* POST /api/prompts up to the creation of the row
P_Post(s) ==
    /\ MayStart(s)
    /\ promptNextId + PostsInFlight <= MaxPrompts
    /\ \E session \in BOOLEAN, valid \in BOOLEAN, isActive \in BOOLEAN,
          dbOk \in BOOLEAN :
        IF ~session
        THEN PromptFail(s, "POST", 401) /\ UNCHANGED prompts
        ELSE IF ~valid
        THEN PromptFail(s, "POST", 400) /\ UNCHANGED prompts
        ELSE IF isActive /\ ~dbOk
        THEN PromptFail(s, "POST", 500) /\ UNCHANGED prompts
        ELSE /\ prompts' = IF isActive THEN DeactivateAll(prompts) ELSE prompts
             /\ PromptContinue(s, "create", "POST", 0, isActive)
    /\ UNCHANGED <<promptNextId, promptSerial, promptStartedSingle>>
    /\ UNCHANGED nonPromptVars

\* prisma.prompt.create and the 201
P_PostCreate(s) ==
    /\ promptReqs[s].pc = "create"
    /\ \E dbOk \in BOOLEAN :
        IF dbOk
        THEN /\ prompts' = [prompts EXCEPT
                              ![promptNextId] = StoredActivity(promptReqs[s].isActive)]
             /\ promptNextId' = promptNextId + 1
             /\ PromptRespond(s, "POST", promptNextId, 201, promptReqs[s].isActive)
        ELSE /\ PromptFail(s, "POST", 500)
             /\ UNCHANGED <<prompts, promptNextId>>
    /\ UNCHANGED <<promptSerial, promptStartedSingle>>
    /\ UNCHANGED nonPromptVars

\* PUT /api/prompts/[id] up to the update of the row
P_Put(s) ==
    /\ MayStart(s)
    /\ \E id \in 1..MaxPrompts, session \in BOOLEAN, valid \in BOOLEAN,
          isActive \in BOOLEAN, dbOk \in BOOLEAN :
        IF ~session
        THEN PromptFail(s, "PUT", 401) /\ UNCHANGED prompts
        ELSE IF ~valid
        THEN PromptFail(s, "PUT", 400) /\ UNCHANGED prompts
        ELSE IF isActive /\ ~dbOk
        THEN PromptFail(s, "PUT", 500) /\ UNCHANGED prompts
        ELSE /\ prompts' = IF isActive THEN DeactivateOthers(prompts, id)
                           ELSE prompts
             /\ PromptContinue(s, "update", "PUT", id, isActive)
    /\ UNCHANGED <<promptNextId, promptSerial, promptStartedSingle>>
    /\ UNCHANGED nonPromptVars

\* prisma.prompt.update of the PUT and the 200; a missing row makes it throw
P_PutUpdate(s) ==
    /\ promptReqs[s].pc = "update"
    /\ promptReqs[s].op = "PUT"
    /\ LET id == promptReqs[s].id
           isActive == promptReqs[s].isActive
       IN \E dbOk \in BOOLEAN :
            IF dbOk /\ prompts[id] # "none"
            THEN /\ prompts' = [prompts EXCEPT ![id] = StoredActivity(isActive)]
                 /\ PromptRespond(s, "PUT", id, 200, isActive)
            ELSE /\ PromptFail(s, "PUT", 500)
                 /\ UNCHANGED prompts
    /\ UNCHANGED <<promptNextId, promptSerial, promptStartedSingle>>
    /\ UNCHANGED nonPromptVars

\* POST /api/prompts/[id]/activate up to the lookup of the prompt
P_Activate(s) ==
    /\ MayStart(s)
    /\ \E id \in 1..MaxPrompts, session \in BOOLEAN, dbOk \in BOOLEAN :
        IF ~session
        THEN PromptFail(s, "ACTIVATE", 401)
        ELSE IF ~dbOk
        THEN PromptFail(s, "ACTIVATE", 500)
        ELSE IF prompts[id] = "none"
        THEN PromptFail(s, "ACTIVATE", 404)
        ELSE PromptContinue(s, "deactivate", "ACTIVATE", id, TRUE)
    /\ UNCHANGED <<prompts, promptNextId, promptSerial, promptStartedSingle>>
    /\ UNCHANGED nonPromptVars

\* the updateMany of activate
P_ActivateDeactivate(s) ==
    /\ promptReqs[s].pc = "deactivate"
    /\ \E dbOk \in BOOLEAN :
        IF dbOk
        THEN /\ prompts' = DeactivateAll(prompts)
             /\ PromptContinue(s, "update", "ACTIVATE", promptReqs[s].id, TRUE)
        ELSE /\ PromptFail(s, "ACTIVATE", 500)
             /\ UNCHANGED prompts
    /\ UNCHANGED <<promptNextId, promptSerial, promptStartedSingle>>
    /\ UNCHANGED nonPromptVars

\* the update of activate and the 200
P_ActivateUpdate(s) ==
    /\ promptReqs[s].pc = "update"
    /\ promptReqs[s].op = "ACTIVATE"
    /\ LET id == promptReqs[s].id
       IN \E dbOk \in BOOLEAN :
            IF dbOk /\ prompts[id] # "none"
            THEN /\ prompts' = [prompts EXCEPT ![id] = "active"]
                 /\ PromptRespond(s, "ACTIVATE", id, 200, TRUE)
            ELSE /\ PromptFail(s, "ACTIVATE", 500)
                 /\ UNCHANGED prompts
    /\ UNCHANGED <<promptNextId, promptSerial, promptStartedSingle>>
    /\ UNCHANGED nonPromptVars

\* DELETE /api/prompts/[id] up to the delete of the row
P_Delete(s) ==
    /\ MayStart(s)
    /\ \E id \in 1..MaxPrompts, session \in BOOLEAN, dbOk \in BOOLEAN :
        IF ~session
        THEN PromptFail(s, "DELETE", 401)
        ELSE IF ~dbOk
        THEN PromptFail(s, "DELETE", 500)
        ELSE IF prompts[id] = "none"
        THEN PromptFail(s, "DELETE", 404)
        ELSE IF prompts[id] = "active"
        THEN PromptFail(s, "DELETE", 400)
        ELSE PromptContinue(s, "delete", "DELETE", id, FALSE)
    /\ UNCHANGED <<prompts, promptNextId, promptSerial, promptStartedSingle>>
    /\ UNCHANGED nonPromptVars

\* prisma.prompt.delete and the 204
P_DeleteRow(s) ==
    /\ promptReqs[s].pc = "delete"
    /\ LET id == promptReqs[s].id
       IN \E dbOk \in BOOLEAN :
            IF dbOk /\ prompts[id] # "none"
            THEN /\ prompts' = [prompts EXCEPT ![id] = "none"]
                 /\ PromptRespond(s, "DELETE", id, 204, FALSE)
            ELSE /\ PromptFail(s, "DELETE", 500)
                 /\ UNCHANGED prompts
    /\ UNCHANGED <<promptNextId, promptSerial, promptStartedSingle>>
    /\ UNCHANGED nonPromptVars

\* the rows 1..n exist, each active or not: nothing in the schema or in the
\* handlers keeps a table from holding several active prompts
PromptTables ==
    { t \in [1..MaxPrompts -> {"none", "inactive", "active"}] :
        \A p \in 1..MaxPrompts : \A q \in 1..p : t[p] # "none" => t[q] # "none" }

RowsOf(table) == Cardinality({p \in DOMAIN table : table[p] # "none"})

PromptInitWith(serial) ==
    /\ prompts \in PromptTables
    /\ promptNextId = RowsOf(prompts) + 1
    /\ promptReqs = [s \in 1..MaxRequests |-> IdleSlot]
    /\ promptSerial = serial
    /\ promptLast = NoResponse
    /\ promptStartedSingle = (Cardinality(ActiveIds(prompts)) <= 1)

PromptNext ==
    \/ \E s \in 1..MaxRequests : P_Post(s)
    \/ \E s \in 1..MaxRequests : P_PostCreate(s)
    \/ \E s \in 1..MaxRequests : P_Put(s)
    \/ \E s \in 1..MaxRequests : P_PutUpdate(s)
    \/ \E s \in 1..MaxRequests : P_Activate(s)
    \/ \E s \in 1..MaxRequests : P_ActivateDeactivate(s)
    \/ \E s \in 1..MaxRequests : P_ActivateUpdate(s)
    \/ \E s \in 1..MaxRequests : P_Delete(s)
    \/ \E s \in 1..MaxRequests : P_DeleteRow(s)

\* the requests arrive one after the other, from any table
PromptSeqInit ==
    PromptInitWith(TRUE) /\ SyncIdle /\ DeleteIdle /\ WebhookIdle /\ CadenceIdle /\ BulkIdle /\ ProcessIdle

SpecPromptSeq == PromptSeqInit /\ [][PromptNext]_vars

\* the requests overlap, from a table with at most one active prompt
PromptInit ==
    /\ PromptInitWith(FALSE)
    /\ Cardinality(ActiveIds(prompts)) <= 1
    /\ SyncIdle /\ DeleteIdle /\ WebhookIdle /\ CadenceIdle /\ BulkIdle /\ ProcessIdle

SpecPrompt == PromptInit /\ [][PromptNext]_vars

\* C5: when the requests are executed one after the other, a successful POST
\* or PUT with isActive true, or a successful activate, leaves its target
\* prompt active and every other prompt not active, whatever the table held
\* before; and a table that started with at most one active prompt has at
\* most one active prompt in every state.
C5_SequentialSingleActive ==
    /\ (/\ AllSlotsIdle
        /\ promptLast.activating
        /\ promptLast.status \in {200, 201})
       => /\ prompts[promptLast.id] = "active"
          /\ ActiveIds(prompts) = {promptLast.id}
    /\ promptStartedSingle => Cardinality(ActiveIds(prompts)) <= 1

C5_Witness ==
    /\ AllSlotsIdle
    /\ promptLast.activating
    /\ promptLast.op = "PUT"
    /\ promptLast.status = 200
    /\ ~promptStartedSingle

\* C6: under every interleaving of concurrent prompt requests the table
\* holds at most one active prompt in every state.
C6_AtMostOneActive ==
    Cardinality(ActiveIds(prompts)) <= 1

(***************************************************************************)
(* The delete guards: DELETE of pages/api/slack-channels/[id].ts and of    *)
(* the HubSpot company handler (unnamed/part_001).  The Mapping table and  *)
(* its join rows are inputs here: no handler of these sources writes them. *)
(***************************************************************************)
\* the rows of MappingSlackChannel: one per mapping and channel it binds
JoinRows ==
    { <<m, c>> \in (1..MaxMappingRows) \X (1..MaxRows) :
        mappingRows[m].present /\ c \in mappingRows[m].slackChannelIds }

\* prisma.mappingSlackChannel.count({ where: { slackChannelId: id } })
CountJoinRows(id) == Cardinality({ j \in JoinRows : j[2] = id })

\* prisma.mapping.count({ where: { hubspotCompanyId: id } })
CountMappings(id) ==
    Cardinality({ m \in 1..MaxMappingRows :
                    mappingRows[m].present /\ mappingRows[m].hubspotCompanyId = id })

\* a guard that lets the last reference go
IsReferencedByTwo(mappingCount) == mappingCount > 1

\* if (mappingCount > 0)
IsReferenced(mappingCount) == mappingCount > 0

\* lib/utils/errorHandler is not among the sources; its statuses follow the
\* error taxonomy: a row that is not found gives 404, anything else 500
handleError(code) == IF code = "P2025" THEN 404 ELSE 500

\* the catch of the company handler
CompanyCatch(code) == IF code = "P2025" THEN 404 ELSE 500

\* what the session lookup and the two database calls of a request do
DeleteOutcomes == {"ok", "no-session", "count-throws", "delete-throws"}

DeleteRespond(table, id, status, count) ==
    deleteLast' = [table |-> table, id |-> id, status |-> status, count |-> count,
                   rowsBefore |-> IF table = "slackChannel" THEN slackChannelRows
                                  ELSE companyRows]

\* DELETE /api/slack-channels/[id]
D_DeleteSlackChannel ==
    /\ \E id \in 1..MaxRows, outcome \in DeleteOutcomes :
        LET session == outcome # "no-session"
            countOk == outcome # "count-throws"
            deleteOk == outcome # "delete-throws"
            mappingCount == CountJoinRows(id)
        IN  IF ~session
            THEN DeleteRespond("slackChannel", id, 401, 0)
                 /\ UNCHANGED slackChannelRows
            ELSE IF ~countOk
            THEN DeleteRespond("slackChannel", id, handleError("other"), 0)
                 /\ UNCHANGED slackChannelRows
            ELSE IF IsReferenced(mappingCount)
            THEN DeleteRespond("slackChannel", id, 400, mappingCount)
                 /\ UNCHANGED slackChannelRows
            ELSE IF id \notin slackChannelRows
            THEN DeleteRespond("slackChannel", id, handleError("P2025"), 0)
                 /\ UNCHANGED slackChannelRows
            ELSE IF ~deleteOk
            THEN DeleteRespond("slackChannel", id, handleError("other"), 0)
                 /\ UNCHANGED slackChannelRows
            ELSE /\ slackChannelRows' = slackChannelRows \ {id}
                 /\ DeleteRespond("slackChannel", id, 204, 0)
    /\ UNCHANGED <<companyRows, mappingRows>>
    /\ UNCHANGED nonDeleteVars

\* DELETE /api/hubspot-companies/[id]
D_DeleteHubspotCompany ==
    /\ \E id \in 1..MaxRows, outcome \in DeleteOutcomes :
        LET session == outcome # "no-session"
            countOk == outcome # "count-throws"
            deleteOk == outcome # "delete-throws"
            mappingCount == CountMappings(id)
        IN  IF ~session
            THEN DeleteRespond("hubspotCompany", id, 401, 0)
                 /\ UNCHANGED companyRows
            ELSE IF ~countOk
            THEN DeleteRespond("hubspotCompany", id, CompanyCatch("other"), 0)
                 /\ UNCHANGED companyRows
            ELSE IF IsReferenced(mappingCount)
            THEN DeleteRespond("hubspotCompany", id, 400, mappingCount)
                 /\ UNCHANGED companyRows
            ELSE IF id \notin companyRows
            THEN DeleteRespond("hubspotCompany", id, CompanyCatch("P2025"), 0)
                 /\ UNCHANGED companyRows
            ELSE IF ~deleteOk
            THEN DeleteRespond("hubspotCompany", id, CompanyCatch("other"), 0)
                 /\ UNCHANGED companyRows
            ELSE /\ companyRows' = companyRows \ {id}
                 /\ DeleteRespond("hubspotCompany", id, 204, 0)
    /\ UNCHANGED <<slackChannelRows, mappingRows>>
    /\ UNCHANGED nonDeleteVars

\* a mapping binds one company and at least one channel
MappingRowValues ==
    {NoMappingRow} \cup
    [present : {TRUE}, hubspotCompanyId : 1..MaxRows,
     slackChannelIds : (SUBSET (1..MaxRows)) \ {{}}]

\* the ids of the mappings play no part in the counts: the tables are taken
\* up to a renumbering of the mappings
Renumbered(table) ==
    \A m \in 1..(MaxMappingRows - 1) :
        /\ table[m + 1].present => table[m].present
        /\ table[m + 1].present =>
            table[m].hubspotCompanyId <= table[m + 1].hubspotCompanyId

\* every row a mapping refers to exists
DeleteInit ==
    /\ mappingRows \in {t \in [1..MaxMappingRows -> MappingRowValues] : Renumbered(t)}
    /\ slackChannelRows = 1..MaxRows
    /\ companyRows = 1..MaxRows
    /\ deleteLast = NoDelete
    /\ SyncIdle /\ PromptIdle /\ WebhookIdle /\ CadenceIdle /\ BulkIdle /\ ProcessIdle

DeleteNext ==
    \/ D_DeleteSlackChannel
    \/ D_DeleteHubspotCompany

SpecDelete == DeleteInit /\ [][DeleteNext]_vars

\* the references to the row of the last delete request, counted over the
\* mappings themselves
ReferencesOfLast ==
    IF deleteLast.table = "slackChannel"
    THEN Cardinality({ m \in 1..MaxMappingRows :
            mappingRows[m].present /\ deleteLast.id \in mappingRows[m].slackChannelIds })
    ELSE Cardinality({ m \in 1..MaxMappingRows :
            mappingRows[m].present /\ mappingRows[m].hubspotCompanyId = deleteLast.id })

RowsOfLast ==
    IF deleteLast.table = "slackChannel" THEN slackChannelRows ELSE companyRows

RowsBeforeLast == deleteLast.rowsBefore

\* the request had a session and its database calls answered
DeleteAnswered == deleteLast.status \notin {401, 500}

\* C7: a DELETE of a SlackChannel referenced by n >= 1 join rows, or of a
\* HubspotCompany referenced by n >= 1 mappings, leaves its table as it was
\* and, when the request is authenticated and the count is answered,
\* returns 400 with the count n in its message; a row is deleted, with status
\* 204, only when n = 0, and an existing row with n = 0 is deleted.
C7_DeleteBlockedWhileReferenced ==
    deleteLast.table # "none" =>
        LET n == ReferencesOfLast
        IN  /\ n >= 1 =>
                /\ RowsOfLast = RowsBeforeLast
                /\ DeleteAnswered => (deleteLast.status = 400 /\ deleteLast.count = n)
            /\ deleteLast.status = 204 <=>
                (n = 0 /\ RowsOfLast = RowsBeforeLast \ {deleteLast.id}
                       /\ deleteLast.id \in RowsBeforeLast)
            /\ RowsOfLast # RowsBeforeLast => deleteLast.status = 204
            /\ (n = 0 /\ deleteLast.id \in RowsBeforeLast /\ DeleteAnswered)
                => deleteLast.status = 204

C7_Witness ==
    /\ deleteLast.table = "slackChannel"
    /\ ReferencesOfLast = 2
    /\ deleteLast.status = 400
    /\ deleteLast.count = 2
    /\ \E m \in 1..MaxMappingRows :
        mappingRows[m].present /\ Cardinality(mappingRows[m].slackChannelIds) = 2

(***************************************************************************)
(* Webhook signature verification: computeSignature and verifySignature of *)
(* pages/api/firespot.ts.  A string is a sequence of characters, a Buffer  *)
(* a sequence of bytes.                                                    *)
(***************************************************************************)
HexLower == <<"0", "1", "2", "3", "4", "5", "6", "7", "8", "9",
              "a", "b", "c", "d", "e", "f">>

HexUpper == <<"0", "1", "2", "3", "4", "5", "6", "7", "8", "9",
              "A", "B", "C", "D", "E", "F">>

\* [0-9a-f] under the i flag
IsHexChar(c) == \E v \in 1..16 : HexLower[v] = c \/ HexUpper[v] = c

HexValue(c) == (CHOOSE v \in 1..16 : HexLower[v] = c \/ HexUpper[v] = c) - 1

\* /^[0-9a-f]+$/i.test(text)
IsHex(text) == Len(text) > 0 /\ \A i \in 1..Len(text) : IsHexChar(text[i])

\* Buffer.from(text, 'hex'): one byte per pair of hex digits, up to the first
\* pair that is not one; a last digit without a partner is dropped
BufferFromHex(text) ==
    LET pairs == { k \in 0..(Len(text) \div 2) :
                     \A i \in 1..(2 * k) : IsHexChar(text[i]) }
        n == CHOOSE k \in pairs : \A j \in pairs : j <= k
    IN  [i \in 1..n |-> 16 * HexValue(text[2 * i - 1]) + HexValue(text[2 * i])]

\* digest('hex'): two lower-case digits per byte
ToHex(buffer) ==
    [i \in 1..(2 * Len(buffer)) |->
        LET b == buffer[(i + 1) \div 2]
        IN  IF i % 2 = 1 THEN HexLower[(b \div 16) + 1] ELSE HexLower[(b % 16) + 1]]

\* the secrets of the environment and of the senders; "" is an unset secret
Secrets == <<"", "secret", "other">>

PayloadByteValues == {0, 1}

Payloads == UNION { [1..n -> PayloadByteValues] : n \in 0..MaxPayloadLen }

RECURSIVE PayloadIndex(_)
PayloadIndex(payload) ==
    IF payload = <<>> THEN 0
    ELSE PayloadIndex(SubSeq(payload, 1, Len(payload) - 1))
             * (Cardinality(PayloadByteValues) + 1)
         + payload[Len(payload)] + 1

RECURSIVE Power(_, _)
Power(b, e) == IF e = 0 THEN 1 ELSE b * Power(b, e - 1)

SecretIndex(secret) == (CHOOSE i \in 1..Len(Secrets) : Secrets[i] = secret) - 1

\* HMAC-SHA256 as an injective function of (secret, payload) into digests:
\* the pair is numbered, the number is spread over the digests by an odd
\* multiplier, which permutes the residues of a power of two
Hmac(secret, payload) ==
    LET space == Power(256, DigestBytes)
        index == SecretIndex(secret) * Power(Cardinality(PayloadByteValues) + 1,
                                             MaxPayloadLen + 1)
                 + PayloadIndex(payload)
        value == (index * 4099 + 43981) % space
    IN  [i \in 1..DigestBytes |-> (value \div Power(256, DigestBytes - i)) % 256]

computeSignature(payload, secret) == ToHex(Hmac(secret, payload))

Sha256Prefix == <<"s", "h", "a", "2", "5", "6", "=">>

\* receivedSignature.startsWith('sha256=')
StartsWithPrefix(text) ==
    /\ Len(text) >= Len(Sha256Prefix)
    /\ SubSeq(text, 1, Len(Sha256Prefix)) = Sha256Prefix

\* receivedSignature.substring(7), or the signature itself
ReceivedHash(text) ==
    IF StartsWithPrefix(text)
    THEN SubSeq(text, Len(Sha256Prefix) + 1, Len(text))
    ELSE text

\* crypto.timingSafeEqual on buffers of one length
timingSafeEqual(a, b) == \A i \in 1..Len(a) : a[i] = b[i]

\* received: [present, text]; a header that is absent is not present
verifySignature(payload, secret, received) ==
    IF ~received.present \/ received.text = <<>> \/ secret = ""
    THEN FALSE
    ELSE LET expectedSignature == computeSignature(payload, secret)
             receivedHash == ReceivedHash(received.text)
         IN  IF ~IsHex(receivedHash)
             THEN FALSE
             ELSE LET expectedBuffer == BufferFromHex(expectedSignature)
                      receivedBuffer == BufferFromHex(receivedHash)
                  IN  IF Len(expectedBuffer) # Len(receivedBuffer)
                      THEN FALSE
                      ELSE timingSafeEqual(expectedBuffer, receivedBuffer)

\* ---- the requests that reach verifySignature
SignatureChars == {"0", "9", "a", "f", "A", "F", "g", "="}

\* one character replaced by another
Changed(text) ==
    { [text EXCEPT ![i] = c] : i \in 1..Len(text), c \in SignatureChars } \ {text}

\* one character added, anywhere
Inserted(text) ==
    { SubSeq(text, 1, i) \o <<c>> \o SubSeq(text, i + 1, Len(text)) :
        i \in 0..Len(text), c \in SignatureChars }

\* one character removed
Deleted(text) ==
    { SubSeq(text, 1, i - 1) \o SubSeq(text, i + 1, Len(text)) : i \in 1..Len(text) }

\* one byte of the payload replaced by another
Mutated(payload) ==
    { [payload EXCEPT ![i] = b] : i \in 1..Len(payload), b \in PayloadByteValues }
        \ {payload}

\* the header as the sender wrote it
SentSignature(payload, secret, prefixed) ==
    IF prefixed THEN Sha256Prefix \o computeSignature(payload, secret)
    ELSE computeSignature(payload, secret)

\* the header as it arrives: missing, as sent, or one character away from it
ReceivedSignatures(sent) ==
    { [present |-> FALSE, text |-> <<>>] } \cup
    { [present |-> TRUE, text |-> t] :
        t \in {sent} \cup Changed(sent) \cup Inserted(sent) \cup Deleted(sent) }

WebhookInit ==
    /\ \E payload \in Payloads, secret \in {Secrets[i] : i \in 1..Len(Secrets)},
          signerSecret \in {Secrets[i] : i \in 1..Len(Secrets)},
          prefixed \in BOOLEAN :
        \E signedPayload \in {payload} \cup Mutated(payload) :
            LET sent == SentSignature(signedPayload, signerSecret, prefixed)
            IN  \E received \in ReceivedSignatures(sent) :
                    webhook = [pc |-> "received", payload |-> payload,
                               secret |-> secret, sent |-> sent,
                               received |-> received, result |-> FALSE]
    /\ SyncIdle /\ PromptIdle /\ DeleteIdle /\ CadenceIdle /\ BulkIdle /\ ProcessIdle

\* the call of verifySignature in the handler
W_Verify ==
    /\ webhook.pc = "received"
    /\ webhook' = [webhook EXCEPT
                     !.pc = "verified",
                     !.result = verifySignature(webhook.payload, webhook.secret,
                                                webhook.received)]
    /\ UNCHANGED nonWebhookVars

WebhookNext == W_Verify

SpecWebhook == WebhookInit /\ [][WebhookNext]_vars

LowerCase(text) ==
    [i \in 1..Len(text) |->
        IF \E v \in 1..16 : HexUpper[v] = text[i]
        THEN HexLower[CHOOSE v \in 1..16 : HexUpper[v] = text[i]]
        ELSE text[i]]

\* the received signature, without its optional prefix, is the hex digest of
\* the payload under the secret, whatever the case of its digits
IsTheDigest ==
    /\ webhook.received.present
    /\ webhook.secret # ""
    /\ LowerCase(ReceivedHash(webhook.received.text))
        = computeSignature(webhook.payload, webhook.secret)

\* C8: verifySignature returns true exactly when the received signature,
\* after removing an optional 'sha256=' prefix, is the hex digest of the
\* payload under the secret: a mutated payload, a signature with a character
\* changed, inserted or deleted, a missing signature, an empty secret and a
\* signature that is not hex all give false.
C8_TrueExactlyForTheDigest ==
    webhook.pc = "verified" => (webhook.result <=> IsTheDigest)

(***************************************************************************)
(* Further properties of the sync handler and its audit log.               *)
(***************************************************************************)
\* the CronLogMapping rows of this run with the given status
ChildrenOfRun(status) ==
    { i \in 1..Len(cronLogMappings) :
        /\ cronLogMappings[i].cronLogId = cronLogId
        /\ cronLogMappings[i].status = status }

\* the final write of the run went through
RunFinalized ==
    /\ isCronCall
    /\ cronLogId # 0
    /\ cronLogs[cronLogId].status = "completed"

CountsMatchChildren ==
    LET row == cronLogs[cronLogId]
    IN  /\ row.mappingsExecuted = Cardinality(ChildrenOfRun("success"))
        /\ row.mappingsFailed = Cardinality(ChildrenOfRun("failed"))
        /\ row.mappingsExecuted + row.mappingsFailed
            = Cardinality({ i \in 1..Len(cronLogMappings) :
                              cronLogMappings[i].cronLogId = cronLogId })

\* the counters of every row that stays in the table do not go down
CountersDoNotDecrease ==
    \A id \in 1..Len(cronLogs) :
        /\ id <= Len(cronLogs')
        /\ cronLogs'[id].mappingsFound >= cronLogs[id].mappingsFound
        /\ cronLogs'[id].mappingsExecuted >= cronLogs[id].mappingsExecuted
        /\ cronLogs'[id].mappingsFailed >= cronLogs[id].mappingsFailed

\* C11 as stated: at finalization the counts match the children, and their
\* sum never exceeds the row's mappingsFound.
C11_Original ==
    RunFinalized =>
        /\ CountsMatchChildren
        /\ cronLogs[cronLogId].mappingsExecuted + cronLogs[cronLogId].mappingsFailed
            <= cronLogs[cronLogId].mappingsFound

\* C11: when a scheduled run is finalized, mappingsExecuted is the number of
\* its children with status 'success', mappingsFailed the number with status
\* 'failed', their sum the number of its children, also when child writes
\* fail; the sum never exceeds the number of mappings the query returned,
\* and the row's mappingsFound is that number or, when its update failed,
\* still 0; no counter of a row ever decreases.
C11_CountsMatchChildren ==
    /\ [](RunFinalized =>
            /\ CountsMatchChildren
            /\ cronLogs[cronLogId].mappingsExecuted + cronLogs[cronLogId].mappingsFailed
                <= Len(mappings)
            /\ cronLogs[cronLogId].mappingsFound \in {0, Len(mappings)})
    /\ [][CountersDoNotDecrease]_vars

C11_Witness ==
    /\ RunFinalized
    /\ pc = "done"
    /\ Len(mappingStatuses) = 2
    /\ Cardinality(ChildrenOfRun("success")) = 1
    /\ Cardinality(ChildrenOfRun("failed")) = 0
    /\ mappingStatuses[2].status.success
    /\ ~mappingStatuses[1].status.success
    /\ cronLogs[cronLogId].mappingsFound = 2

\* the message of the error the control logic threw, "" when it has none
ThrownMessage ==
    LET c == calls[Len(calls)]
    IN  IF c.outcome = "throws-no-message" THEN "" ELSE "Database error"

GenericFailure == [status |-> 500, error |-> "Internal Server Error"]

\* a row that records the failure of the run: the run's own row when one was
\* created, a new one otherwise
FailurePersisted ==
    LET id == IF cronLogId # 0 THEN cronLogId ELSE Len(cronLogs)
    IN  /\ id > Len(<< EarlierCronLog >>)
        /\ cronLogs[id].status = "failed"
        /\ cronLogs[id].completedAt
        /\ cronLogs[id].errorMessage = MessageOr(ThrownMessage, "Internal Server Error")

\* the write of the outer catch went through
CatchWriteDone ==
    /\ Len(auditWrites) > 0
    /\ auditWrites[Len(auditWrites)].status = "failed"

\* C12 as stated: a failure of the control logic ends the request with the
\* generic 500, and a scheduled run has the error persisted in its CronLog.
C12_Original ==
    (pc = "done" /\ ControlThrew) =>
        /\ response = GenericFailure
        /\ isCronCall => FailurePersisted

\* C12: a failure of the control logic around the per-mapping loop ends the
\* request with status 500 and the generic body, which never carries the
\* error's message, and a 500 has no other cause; for a scheduled run the
\* outer catch writes the error message (the generic text when the error has
\* none) with status 'failed' and completedAt into the run's row, or into a
\* new row when none was created, and when that write fails too no row
\* records the failure.
C12_ControlFailureIsGeneric500 ==
    /\ (pc = "done" /\ ControlThrew) =>
        /\ response = GenericFailure
        /\ response.error # "Database error"
        /\ (isCronCall /\ CatchWriteDone) => FailurePersisted
        /\ (isCronCall /\ ~CatchWriteDone) =>
                \A id \in 1..Len(cronLogs) : cronLogs[id].status # "failed"
    /\ (pc = "done" /\ request.entry # "service" /\ response.status = 500)
        => ControlThrew

C12_Witness ==
    /\ pc = "done"
    /\ ControlThrew
    /\ isCronCall
    /\ cronLogId = 0
    /\ calls[Len(calls)].op = "prompt.findFirst"
    /\ FailurePersisted
    /\ cronLogs[Len(cronLogs)].errorMessage = "Database error"

\* nothing was read, written or sent for the request
NoEffect ==
    /\ calls = <<>>
    /\ auditWrites = <<>>
    /\ cronLogs = << EarlierCronLog >>
    /\ cronLogMappings = <<>>
    /\ results = <<>>

\* C13: with CRON_SECRET configured, every GET /api/sync whose authorization
\* header is not exactly 'Bearer <CRON_SECRET>' is answered 401 and causes
\* no audit-log write, no mapping query, no adapter call and no note,
\* whatever other headers it carries.
C13_SecretProtectsScheduledSync ==
    (/\ request.entry = "GET"
     /\ request.cronSecret
     /\ request.authorization # "exact")
    => /\ NoEffect
       /\ pc = "done" => response.status = 401

\* C14, for the manual POST /api/sync among the routes it names: a request
\* that carries no session is answered 401 before any read or write of the
\* database and before any call to a provider.
C14_ManualSyncNeedsSession ==
    (/\ request.entry = "POST"
     /\ ~request.session)
    => /\ NoEffect
       /\ pc = "done" => response.status = 401

\* the mappings of the database that today's cadences and the mappingId of
\* the request select, read off the rows themselves
DueToday(k) ==
    /\ dbMappings[k].cadence \in request.cadenceResult.cadences
    /\ request.mappingId # 0 => dbMappings[k].id = request.mappingId

\* the channel belongs to a mapping of the database picked by the predicate
ChannelOfSelected(channelId, Picked(_)) ==
    \E k \in 1..Len(dbMappings) :
        /\ Picked(k)
        /\ \E c \in 1..Len(dbMappings[k].slackChannels) :
            dbMappings[k].slackChannels[c].slackChannel.channelId = channelId

RequestedById(k) ==
    request.mappingId # 0 => dbMappings[k].id = request.mappingId

NoSyncResponse ==
    [status |-> 200, message |-> "No mappings scheduled for sync today",
     results |-> <<>>]

\* the part shared by both readings of C15: the cadence filter of a
\* scheduled run, no filter for a manual run, and the early return
CadenceFilter ==
    /\ (isCronCall /\ Len(calls) > 0) =>
        /\ request.cadenceResult.shouldSync
        /\ calls[1].op = "mapping.findMany"
        /\ calls[1].cadences = request.cadenceResult.cadences
        /\ \A k \in 1..Len(mappings) :
            mappings[k].cadence \in request.cadenceResult.cadences
        /\ \A k \in 1..Len(FetchedChannels) :
            ChannelOfSelected(FetchedChannels[k], DueToday)
    /\ (isCronCall /\ pc = "done" /\ response.status = 200
            /\ request.cadenceResult.shouldSync) =>
        \A k \in 1..Len(dbMappings) :
            DueToday(k) <=> \E j \in 1..Len(mappings) : mappings[j].id = dbMappings[k].id
    /\ (request.entry = "POST" /\ pc = "done" /\ response.status = 200) =>
        \A k \in 1..Len(dbMappings) :
            RequestedById(k) <=> \E j \in 1..Len(mappings) : mappings[j].id = dbMappings[k].id
    /\ (isCronCall /\ ~request.cadenceResult.shouldSync) =>
        /\ calls = <<>>
        /\ results = <<>>
        /\ cronLogMappings = <<>>
        /\ pc = "done" => response = NoSyncResponse

\* C15 as stated: the run without a cadence due also marks its CronLog
\* 'completed' with all counts 0.
C15_Original ==
    /\ CadenceFilter
    /\ (isCronCall /\ ~request.cadenceResult.shouldSync /\ pc = "done") =>
        /\ cronLogId # 0
        /\ cronLogs[cronLogId].status = "completed"
        /\ cronLogs[cronLogId].mappingsFound = 0
        /\ cronLogs[cronLogId].mappingsExecuted = 0
        /\ cronLogs[cronLogId].mappingsFailed = 0

\* C15: a scheduled run queries and processes exactly the mappings whose
\* cadence is in today's set (and whose id is the mappingId, when given); a
\* manual run applies no cadence filter; with shouldSync false the run makes
\* no mapping query and no adapter call and answers 200 with 'No mappings
\* scheduled for sync today' and no results, and its CronLog, when its
\* creation succeeded, has all counts 0 and is 'completed' once the update
\* that marks it went through, 'running' otherwise.
C15_CadenceFilterAndEarlyReturn ==
    /\ CadenceFilter
    /\ (isCronCall /\ ~request.cadenceResult.shouldSync /\ pc = "done"
            /\ cronLogId # 0) =>
        /\ cronLogs[cronLogId].mappingsFound = 0
        /\ cronLogs[cronLogId].mappingsExecuted = 0
        /\ cronLogs[cronLogId].mappingsFailed = 0
        /\ cronLogs[cronLogId].status
            = IF Len(auditWrites) = 2 THEN "completed" ELSE "running"

C15_Witness ==
    /\ isCronCall
    /\ pc = "done"
    /\ response.status = 200
    /\ request.cadenceResult.cadences = {"daily"}
    /\ Len(dbMappings) = 2
    /\ Len(mappings) = 1
    /\ Len(FetchedChannels) = 1
    /\ \E k \in 1..Len(dbMappings) : dbMappings[k].cadence = "weekly"

CronLogCreates ==
    { k \in 1..Len(auditWrites) : auditWrites[k].op = "create" }

\* C16: a manual sync (POST), whether it succeeds, partly fails or ends with
\* a 500, creates and updates no CronLog and no CronLogMapping row; a
\* scheduled (GET) run creates at most one CronLog row, and every
\* CronLogMapping row belongs to a scheduled run's CronLog.
C16_OnlyScheduledRunsWriteAuditRows ==
    /\ request.entry = "POST" =>
        /\ auditWrites = <<>>
        /\ cronLogs = << EarlierCronLog >>
        /\ cronLogMappings = <<>>
        /\ cronLogId = 0
    /\ request.entry = "GET" =>
        /\ Cardinality(CronLogCreates) <= 1
        /\ Len(cronLogs) <= Len(<< EarlierCronLog >>) + 1
        /\ \A k \in 1..Len(cronLogMappings) :
            cronLogId # 0 /\ cronLogMappings[k].cronLogId = cronLogId

C16_Witness ==
    /\ request.entry = "POST"
    /\ pc = "done"
    /\ response.status = 200
    /\ \E i, j \in 1..Len(results) :
        results[i].status = "Failed" /\ results[j].status = "Synced"

\* the step made a Slack message fetch for the channel at hand
FetchesNow ==
    /\ pc = "fetch"
    /\ Len(calls') = Len(calls) + 1
    /\ calls'[Len(calls')].op = "fetchRecentMessages"

\* C17: every channel fetch of a sync, by whichever entry point runs the
\* pipeline, passes the lookback of the mapping's cadence to the Slack fetch:
\* 1 day for daily, 7 for weekly, 30 for monthly, 1 for a missing or
\* unrecognised cadence
C17_LookbackFollowsCadence ==
    [][FetchesNow =>
         calls'[Len(calls')].days = DaysToFetch(CurMapping.cadence)]_vars

\* an awaited pause of the loop, as the call log would record it
IsDelay(call) == call.op = "delay"

\* the step made the first outbound call of a mapping after the first
StartsNextMapping == FetchesNow /\ mi > 1 /\ ci = 1

\* C18: in a run over two or more mappings a fixed delay is taken between
\* finishing one mapping and starting the next, n-1 delays in all, and no
\* outbound call of the next mapping begins before that delay
C18_DelayBetweenMappings ==
    /\ [][StartsNextMapping => /\ calls # <<>>
                                /\ IsDelay(calls[Len(calls)])]_vars
    /\ []((pc = "done" /\ request.entry # "service" /\ Len(mappings) >= 2
              /\ response.status = 200)
            => Len(SelectSeq(calls, IsDelay)) = Len(mappings) - 1)

(***************************************************************************)
(* The cadence evaluator, getCadencesForToday of lib/services/cadenceService. *)
(* Its result has the fields the sync handler reads: shouldSync, cadences,  *)
(* dayOfWeek (0 is Sunday), dayOfMonth and lastDayOfMonth.                  *)
(***************************************************************************)
Years == 2023..(2023 + MaxYears - 1)

IsLeapYear(year) ==
    (year % 4 = 0 /\ year % 100 # 0) \/ year % 400 = 0

\* new Date(year, month, 0).getDate()
DaysInMonth(year, month) ==
    CASE month \in {4, 6, 9, 11} -> 30
      [] month = 2 -> IF IsLeapYear(year) THEN 29 ELSE 28
      [] OTHER -> 31

DaysInYear(year) == IF IsLeapYear(year) THEN 366 ELSE 365

RECURSIVE DaysBeforeYear(_)
DaysBeforeYear(year) ==
    IF year = 2023 THEN 0 ELSE DaysInYear(year - 1) + DaysBeforeYear(year - 1)

RECURSIVE DaysBeforeMonth(_, _)
DaysBeforeMonth(year, month) ==
    IF month = 1 THEN 0
    ELSE DaysInMonth(year, month - 1) + DaysBeforeMonth(year, month - 1)

\* Date.getDay(): days counted from Sunday 1 January 2023
getDay(now) ==
    (DaysBeforeYear(now.year) + DaysBeforeMonth(now.year, now.month)
        + (now.day - 1)) % 7

Dates ==
    { [year |-> y, month |-> m, day |-> d] :
        y \in Years, m \in 1..12, d \in 1..31 }

ValidDates == { now \in Dates : now.day <= DaysInMonth(now.year, now.month) }

\* a variant for which every day of the week is a daily day
getCadencesForTodayEveryDay(now) ==
    LET dayOfWeek == getDay(now)
        lastDayOfMonth == DaysInMonth(now.year, now.month)
        cadences == {"daily"}
                    \cup (IF dayOfWeek = 5 THEN {"weekly"} ELSE {})
                    \cup (IF now.day = lastDayOfMonth THEN {"monthly"} ELSE {})
    IN [shouldSync |-> cadences # {}, cadences |-> cadences,
        dayOfWeek |-> dayOfWeek, dayOfMonth |-> now.day,
        lastDayOfMonth |-> lastDayOfMonth]

getCadencesForToday(now) ==
    LET dayOfWeek == getDay(now)
        lastDayOfMonth == DaysInMonth(now.year, now.month)
        cadences == (IF dayOfWeek \in 1..5 THEN {"daily"} ELSE {})
                    \cup (IF dayOfWeek = 5 THEN {"weekly"} ELSE {})
                    \cup (IF now.day = lastDayOfMonth THEN {"monthly"} ELSE {})
    IN [shouldSync |-> cadences # {}, cadences |-> cadences,
        dayOfWeek |-> dayOfWeek, dayOfMonth |-> now.day,
        lastDayOfMonth |-> lastDayOfMonth]

NoCadences ==
    [shouldSync |-> FALSE, cadences |-> {}, dayOfWeek |-> 0, dayOfMonth |-> 0,
     lastDayOfMonth |-> 0]

CadenceInit ==
    /\ \E now \in ValidDates :
         today = [pc |-> "start", now |-> now, result |-> NoCadences]
    /\ SyncIdle /\ PromptIdle /\ DeleteIdle /\ WebhookIdle /\ BulkIdle /\ ProcessIdle

\* cadenceResult = getCadencesForToday()
C_Evaluate ==
    /\ today.pc = "start"
    /\ today' = [today EXCEPT !.pc = "evaluated",
                              !.result = getCadencesForToday(today.now)]
    /\ UNCHANGED nonCadenceVars

CadenceNext == C_Evaluate

SpecCadence == CadenceInit /\ [][CadenceNext]_vars

\* the day of the week by Zeller's congruence: 0 is Saturday, 6 is Friday
Zeller(now) ==
    LET m == IF now.month < 3 THEN now.month + 12 ELSE now.month
        y == IF now.month < 3 THEN now.year - 1 ELSE now.year
        K == y % 100
        J == y \div 100
    IN (now.day + ((13 * (m + 1)) \div 5) + K + (K \div 4) + (J \div 4) + 5 * J) % 7

\* the day after `now` is the first of a month
IsLastDayOfMonth(now) ==
    \A later \in ValidDates :
        (later.year = now.year /\ later.month = now.month) => later.day <= now.day

\* C19: for every calendar date the cadence evaluator's result contains
\* daily exactly on Monday to Friday, weekly exactly on Friday and monthly
\* exactly on the last day of the month; shouldSync is false exactly when
\* the cadence set is empty; every date gets a result and nothing else changes
C19_CadencesOfTheDate ==
    today.pc = "evaluated" =>
        LET r == today.result
        IN /\ ("daily" \in r.cadences) <=> (Zeller(today.now) \in 2..6)
           /\ ("weekly" \in r.cadences) <=> (Zeller(today.now) = 6)
           /\ ("monthly" \in r.cadences) <=> IsLastDayOfMonth(today.now)
           /\ r.cadences \subseteq {"daily", "weekly", "monthly"}
           /\ (~r.shouldSync) <=> (r.cadences = {})
           /\ SyncIdle /\ PromptIdle /\ DeleteIdle /\ WebhookIdle /\ BulkIdle /\ ProcessIdle

\* a Friday that ends its month has been evaluated, and a 29 February
C19_Witness ==
    /\ today.pc = "evaluated"
    /\ \/ today.result.cadences = {"daily", "weekly", "monthly"}
       \/ /\ today.now.month = 2 /\ today.now.day = 29
          /\ "monthly" \in today.result.cadences

(***************************************************************************)
(* The inbound webhook handler, pages/api/firespot.ts: a POST is parsed,    *)
(* its signature is verified and the event is written to FireHookLog.       *)
(***************************************************************************)
\* JSON.parse(rawBody) and the eventType it holds
ParsedBodies == {"invalid-json", "no-eventType", "event"}

\* prisma.fireHookLog: the create resolves, rejects, or the model is missing
CreateOutcomes == {"ok", "throws", "no-model"}

Null == <<"null">>

\* a row written by an earlier request
EarlierFireHookLog ==
    [id |-> 1, processed |-> TRUE, isAuthentic |-> TRUE,
     computedSignature |-> Null, receivedSignature |-> Null]

\* the header as it arrives at the handler: missing, as sent, or cut short
ArrivingSignatures(sent) ==
    { [present |-> FALSE, text |-> <<>>] } \cup
    { [present |-> TRUE, text |-> t] : t \in {sent} \cup Deleted(sent) }

FirespotInit ==
    /\ \E payload \in Payloads, secret \in {Secrets[i] : i \in 1..Len(Secrets)},
          signerSecret \in {Secrets[i] : i \in 1..Len(Secrets)},
          prefixed \in BOOLEAN, parsed \in ParsedBodies,
          createOutcome \in CreateOutcomes,
          logs \in {<<>>, <<EarlierFireHookLog>>} :
        LET sent == SentSignature(payload, signerSecret, prefixed)
        IN  \E received \in ArrivingSignatures(sent) :
                webhook = [pc |-> "arrived", payload |-> payload,
                           secret |-> secret, sent |-> sent,
                           received |-> received, result |-> FALSE,
                           parsed |-> parsed, createOutcome |-> createOutcome,
                           logs |-> logs, rowsBefore |-> Len(logs),
                           response |-> [status |-> 0]]
    /\ SyncIdle /\ PromptIdle /\ DeleteIdle /\ CadenceIdle /\ BulkIdle /\ ProcessIdle

\* getRawBody, JSON.parse and the eventType check
F_Receive ==
    /\ webhook.pc = "arrived"
    /\ webhook' =
         CASE webhook.parsed = "invalid-json" ->
                [webhook EXCEPT !.pc = "done",
                   !.response = [status |-> 400,
                                 error |-> "Invalid JSON in request body"]]
           [] webhook.parsed = "no-eventType" ->
                [webhook EXCEPT !.pc = "done",
                   !.response = [status |-> 400, error |-> "eventType is required"]]
           [] OTHER -> [webhook EXCEPT !.pc = "received"]
    /\ UNCHANGED nonWebhookVars

\* the row of prisma.fireHookLog.create
NewFireHookLog ==
    [id |-> Len(webhook.logs) + 1,
     processed |-> FALSE,
     isAuthentic |-> webhook.result,
     computedSignature |->
        IF webhook.secret # "" THEN computeSignature(webhook.payload, webhook.secret)
        ELSE Null,
     receivedSignature |->
        IF webhook.received.present /\ webhook.received.text # <<>>
        THEN webhook.received.text ELSE Null]

\* a variant that logs authentic events only and turns the others away
F_CreateLogAuthenticOnly ==
    /\ webhook.pc = "verified"
    /\ webhook' =
         IF ~webhook.result
         THEN [webhook EXCEPT !.pc = "done",
                 !.response = [status |-> 401, error |-> "Invalid signature"]]
         ELSE IF webhook.createOutcome = "ok"
         THEN [webhook EXCEPT !.pc = "done",
                 !.logs = Append(webhook.logs, NewFireHookLog),
                 !.response = [status |-> 200, logId |-> NewFireHookLog.id,
                               isAuthentic |-> NewFireHookLog.isAuthentic]]
         ELSE [webhook EXCEPT !.pc = "done",
                 !.response = [status |-> 500,
                               error |-> "Failed to create fire hook log"]]
    /\ UNCHANGED nonWebhookVars

\* the model check, prisma.fireHookLog.create and the answer; the outer catch
F_CreateLog ==
    /\ webhook.pc = "verified"
    /\ webhook' =
         CASE webhook.createOutcome = "no-model" ->
                [webhook EXCEPT !.pc = "done",
                   !.response = [status |-> 500,
                                 error |-> "Database model not available"]]
           [] webhook.createOutcome = "throws" ->
                [webhook EXCEPT !.pc = "done",
                   !.response = [status |-> 500,
                                 error |-> "Failed to create fire hook log"]]
           [] OTHER ->
                [webhook EXCEPT !.pc = "done",
                   !.logs = Append(webhook.logs, NewFireHookLog),
                   !.response = [status |-> 200, logId |-> NewFireHookLog.id,
                                 isAuthentic |-> NewFireHookLog.isAuthentic]]
    /\ UNCHANGED nonWebhookVars

FirespotNext == F_Receive \/ W_Verify \/ F_CreateLog

SpecFirespot == FirespotInit /\ [][FirespotNext]_vars

\* the rows the request added to FireHookLog
RowsAdded ==
    SubSeq(webhook.logs, webhook.rowsBefore + 1, Len(webhook.logs))

\* one row, not processed, carrying the outcome of the verification, and 200
LoggedAndAnswered200 ==
    /\ Len(RowsAdded) = 1
    /\ RowsAdded[1].processed = FALSE
    /\ RowsAdded[1].isAuthentic
         = verifySignature(webhook.payload, webhook.secret, webhook.received)
    /\ webhook.response.status = 200

SummarizesNow ==
    /\ pc = "summarize"
    /\ Len(calls') = Len(calls) + 1
    /\ calls'[Len(calls')].op = "generateSummary"

\* the call processMapping makes in this state, and the one the loop makes
ServiceFetchCall ==
    [op |-> "fetchRecentMessages", channelId |-> CurChannel.channelId,
     days |-> DaysToFetch(CurMapping.cadence)]

HandlerFetchCall ==
    [op |-> "fetchRecentMessages", channelId |-> CurChannel.channelId, days |-> 1]

ServiceSummaryCall ==
    [op |-> "generateSummary", text |-> FormatMessagesForSummary(history.messages),
     prompt |-> systemPrompt, channel |-> ServiceChannelName(CurChannel)]

HandlerSummaryCall ==
    [op |-> "generateSummary", text |-> FormatMessagesForSummary(history.messages),
     prompt |-> systemPrompt, channel |-> HandlerChannelName(CurChannel)]

\* C24: processMapping and the inline per-mapping loop of the sync handler
\* are equivalent: in the same state, for the same adapter behaviour, each
\* issues the call the other would issue, with the same arguments
C24_ServiceEqualsInlineLoop ==
    [][/\ FetchesNow =>
            /\ calls'[Len(calls')] = ServiceFetchCall
            /\ calls'[Len(calls')] = HandlerFetchCall
       /\ SummarizesNow =>
            /\ calls'[Len(calls')] = ServiceSummaryCall
            /\ calls'[Len(calls')] = HandlerSummaryCall]_vars

(***************************************************************************)
(* processMapping on its own: one call, from the caller's hand-over to the *)
(* returned record.                                                        *)
(***************************************************************************)
ServiceRequests == { r \in Requests : r.entry = "service" }

\* the caller has a mapping to hand over
ServiceInit ==
    /\ SyncInitWith(ServiceRequests)
    /\ dbMappings # <<>>
    /\ PromptIdle /\ DeleteIdle /\ WebhookIdle /\ CadenceIdle /\ BulkIdle /\ ProcessIdle

ServiceNext == PM_Call \/ PM_Fetch \/ PM_Summarize \/ PM_CreateNote \/ PM_Stamp

SpecService == ServiceInit /\ [][ServiceNext]_vars

\* the positions of the 'Failed' entries of a result list
FailedAt(rs) == { k \in 1..Len(rs) : rs[k].status = "Failed" }

\* the error string of the first 'Failed' entry, if there is one
FirstError(rs) ==
    IF FailedAt(rs) = {} THEN NoError
    ELSE rs[CHOOSE k \in FailedAt(rs) : \A j \in FailedAt(rs) : k <= j].error

\* the channels of the mapping handed over, up to the one being processed
ChannelsDone(n) ==
    [k \in 1..n |-> mappings[1].slackChannels[k].slackChannel.channelId]

\* C25: processMapping never throws: a failure of the fetch, the formatting,
\* the summary with its fallback, the note or the lastSyncedAt update of any
\* channel becomes a 'Failed' result with an error string; the call always
\* ends by returning one result per channel, in channel order, and the
\* mapping's error is the error string of the first failing channel
C25_ProcessMappingNeverThrows ==
    /\ ~fatalError.thrown
    /\ pc = "done" \/ ENABLED ServiceNext
    /\ \A k \in 1..Len(results) :
          /\ (results[k].status = "Failed") = Threw(outcomes[k])
          /\ results[k].status = "Failed" => results[k].error # ""
    /\ pc \in {"fetch", "summarize", "note", "stamp"} =>
          /\ ChannelIdsOf(results) = ChannelsDone(ci - 1)
          /\ mappingError = FirstError(results)
    /\ pc = "done" =>
          /\ response.results = results
          /\ ChannelIdsOf(response.results)
               = ChannelsDone(Len(mappings[1].slackChannels))
          /\ response.error = FirstError(response.results)

\* two channels failed, at different steps, and the first one's error is kept
C25_Witness ==
    /\ pc = "done"
    /\ Len(response.results) = 2
    /\ outcomes[1].summary = "fallback-throws"
    /\ outcomes[2].stamp = "throws"
    /\ response.results[1].status = "Failed"
    /\ response.results[2].status = "Failed"
    /\ response.error = "Fallback error"

(***************************************************************************)
(* Mappings without messages in the audit log of a scheduled run.          *)
(***************************************************************************)
\* every channel of the mapping was fetched and none had messages or threw
QuietMapping(id) ==
    /\ \E k \in 1..Len(outcomes) : outcomes[k].id = id
    /\ \A k \in 1..Len(outcomes) :
          outcomes[k].id = id => outcomes[k].fetch \in {"missing", "empty"}

\* the mapping gets no error string
QuietHasNoError ==
    /\ \A k \in 1..Len(mappingStatuses) :
          QuietMapping(mappingStatuses[k].mappingId)
             => mappingStatuses[k].status.error = NoError
    /\ \A k \in 1..Len(cronLogMappings) :
          QuietMapping(cronLogMappings[k].mappingId)
             => cronLogMappings[k].errorMessage = NoError

\* the mapping is not recorded as failed
QuietIsNotFailed ==
    \A k \in 1..Len(cronLogMappings) :
        QuietMapping(cronLogMappings[k].mappingId)
           => cronLogMappings[k].status # "failed"

\* the mapping is not counted in mappingsFailed
QuietIsNotCounted ==
    (/\ isCronCall /\ pc = "done" /\ cronLogId # 0
     /\ \A k \in 1..Len(mappings) : QuietMapping(mappings[k].id))
       => cronLogs[cronLogId].mappingsFailed = 0

\* C26: in a scheduled run a mapping all of whose channels return no
\* messages, none raising an error, gets no error string, is not recorded
\* with CronLogMapping status 'failed' and is not counted in mappingsFailed
C26_NoMessagesIsNotAFailedMapping ==
    QuietHasNoError /\ QuietIsNotFailed /\ QuietIsNotCounted

(***************************************************************************)
(* The scheduled run on its own: the GET that the cron trigger sends.      *)
(***************************************************************************)
\* the trigger sends no body: no test flag and no mapping id
CronRequests ==
    { r \in Requests : r.entry = "GET" /\ r.test = "absent" /\ r.mappingId = 0 }

CronInit ==
    /\ SyncInitWith(CronRequests)
    /\ PromptIdle /\ DeleteIdle /\ WebhookIdle /\ CadenceIdle /\ BulkIdle /\ ProcessIdle

CronNext ==
    \/ H_Start
    \/ H_CreateCronLog
    \/ H_NoSync
    \/ H_FindMappings
    \/ H_UpdateFound
    \/ H_LoadPrompt
    \/ H_Fetch
    \/ H_Summarize
    \/ H_CreateNote
    \/ H_Stamp
    \/ H_CreateChild
    \/ H_FinalUpdate
    \/ H_Respond
    \/ H_Catch

SpecCron == CronInit /\ [][CronNext]_vars

\* the run has responded and had created its CronLog row
RunEndedWithRow == pc = "done" /\ isCronCall /\ cronLogId # 0

\* the last write to the CronLog table that went through closed the row
ClosingWriteDone ==
    /\ auditWrites # <<>>
    /\ auditWrites[Len(auditWrites)].op = "update"
    /\ auditWrites[Len(auditWrites)].status \in {"completed", "failed"}

NotePosted(k) == outcomes[k].note = "ok"

\* a 'Synced' channel has its note
SyncedHasNote ==
    \A k \in 1..Len(results) : results[k].status = "Synced" => NotePosted(k)

\* a channel with a note is 'Synced'
NoteMeansSynced ==
    \A k \in 1..Len(results) : NotePosted(k) => results[k].status = "Synced"

\* lastSyncedAt moves only after a note of the mapping was posted
StampFollowsNote ==
    \A id \in DOMAIN lastSyncedAt :
        lastSyncedAt[id] > 0 =>
            \E k \in 1..Len(outcomes) : outcomes[k].id = id /\ outcomes[k].note = "ok"

\* C28: outside test mode a channel's result is 'Synced' if and only if a
\* note was created on the mapped company for that channel during the run:
\* a 'Failed' or 'No messages to sync' channel has had no note posted, and
\* lastSyncedAt is changed only after a note creation of the mapping succeeded
C28_SyncedIffNoteCreated ==
    ~isTestMode => SyncedHasNote /\ NoteMeansSynced /\ StampFollowsNote

(***************************************************************************)
(* Prompt writes that end with an error.                                   *)
(***************************************************************************)
\* the last request, executed on its own, has been answered
LastAnswered == AllSlotsIdle /\ promptLast.op # "none"

\* no prompt's isActive differs from what the last request found
ActivityUnchanged ==
    \A p \in 1..MaxPrompts :
        (prompts[p] = "active") = (promptLast.before[p] = "active")

\* C29: prompt writes are all-or-nothing: when POST /prompts, PUT
\* /prompts/:id or POST /prompts/:id/activate ends with an error response
\* (400, 404 or 500), no prompt's isActive differs from its value before the
\* request; DELETE /prompts/:id never removes the active prompt and never
\* changes which prompt is active
C29_FailedWritesChangeNothing ==
    LastAnswered =>
        /\ (/\ promptLast.op \in {"POST", "PUT", "ACTIVATE"}
            /\ promptLast.status \in {400, 404, 500}) => ActivityUnchanged
        /\ promptLast.op = "DELETE" =>
              /\ ActivityUnchanged
              /\ \A p \in ActiveIds(promptLast.before) : prompts[p] = "active"

(***************************************************************************)
(* Bulk syncs of Slack channels (pages/api/slack-channels/sync.ts) and of  *)
(* HubSpot companies (pages/api/hubspot-companies/sync.ts).  Both page     *)
(* through the provider's listing and upsert each listed item by its       *)
(* external id.                                                            *)
(***************************************************************************)
\* cursor: undefined before the first page, undefined or "" after the last
NoCursor == 0

\* names a provider lists; the empty one is a missing name
ListedNames == {"", "a", "b"}

\* names in the local table before the sync; the empty one is null
RowNames == {"", "a"}

\* a listed item with or without an id; without one its name is never used
ItemShapes == { sh \in [hasId : BOOLEAN, name : ListedNames] : sh.hasId \/ sh.name = "" }

\* the ids of a listing are those of distinct objects: the k-th listed item
\* that carries an id is object k; id 0 is a missing id
RECURSIVE ListedItems(_)
ListedItems(shapes) ==
    IF shapes = <<>> THEN <<>>
    ELSE LET rest == ListedItems(SubSeq(shapes, 1, Len(shapes) - 1))
             last == shapes[Len(shapes)]
             ids == Len(SelectSeq(rest, LAMBDA i : i.id # 0))
         IN Append(rest, [id |-> IF last.hasId THEN ids + 1 ELSE 0, name |-> last.name])

RECURSIVE Flatten(_)
Flatten(pages) ==
    IF pages = <<>> THEN <<>> ELSE Head(pages) \o Flatten(Tail(pages))

\* the items cut into pages of the given sizes
RECURSIVE Paged(_, _)
Paged(items, sizes) ==
    IF sizes = <<>> THEN <<>>
    ELSE << SubSeq(items, 1, Head(sizes)) >>
           \o Paged(SubSeq(items, Head(sizes) + 1, Len(items)), Tail(sizes))

Listings ==
    { Paged(ListedItems(shapes), sizes) :
        << shapes, sizes >> \in
            { x \in (UNION { [1..n -> ItemShapes] : n \in 0..MaxListed })
                      \X (UNION { [1..p -> 0..MaxListed] : p \in 1..MaxPages }) :
                SumSeq(x[2]) = Len(x[1]) } }

\* the table before the sync: rows in id order, at most one per external id
RECURSIVE RowsFrom(_, _)
RowsFrom(names, k) ==
    IF k > MaxListed THEN <<>>
    ELSE IF names[k] = "absent" THEN RowsFrom(names, k + 1)
    ELSE << [extId |-> k, name |-> names[k]] >> \o RowsFrom(names, k + 1)

Tables ==
    { RowsFrom(names, 1) : names \in [1..MaxListed -> RowNames \cup {"absent"}] }

\* what the provider answers to a request for a page
FetchErrors ==
    { [code |-> 429, message |-> "Too many requests"],
      [code |-> 0, message |-> "Rate limit exceeded"],
      [code |-> 500, message |-> "Internal server error"] }

NoFetchError == [code |-> 200, message |-> ""]

\* the page a cursor stands for, and the cursor a page returns
PageOf(cursor) == IF cursor = NoCursor THEN 1 ELSE cursor

NextCursor(k) ==
    IF k < Len(provider.pages) THEN k + 1
    ELSE IF provider.endless THEN 1
    ELSE NoCursor

\* requests a run may send: one more than a finite listing ever needs
MaxFetches == MaxPages + 1

NoBulkResponse == [status |-> 0, message |-> ""]

\* the handler's locals at the start of its try block
BulkStart(run) ==
    [pc |-> "fetch", run |-> run, cursor |-> NoCursor, hasMore |-> TRUE,
     paging |-> NoCursor, queue |-> <<>>,
     results |-> [created |-> 0, updated |-> 0, errors |-> <<>>],
     response |-> NoBulkResponse,
     requests |-> <<>>, fetched |-> <<>>, fetchError |-> NoFetchError,
     handled |-> <<>>, inserted |-> 0, changed |-> 0, failedWrites |-> 0,
     before |-> syncedRows, firstRunClean |-> FALSE]

BulkInit ==
    /\ \E kind \in {"slack", "hubspot"}, pages \in Listings, endless \in BOOLEAN :
         provider = [kind |-> kind, pages |-> pages, endless |-> endless]
    /\ syncedRows \in Tables
    /\ bulk = BulkStart(1)
    /\ SyncIdle /\ PromptIdle /\ DeleteIdle /\ WebhookIdle /\ CadenceIdle
    /\ ProcessIdle

PageOutcomes == {NoFetchError} \cup FetchErrors

\* errorCode === 429 || errorMsg includes 'rate limit' || 'too many requests'
RateLimitMessages == {"Too many requests", "Rate limit exceeded"}

IsRateLimit(e) == e.code = 429 \/ e.message \in RateLimitMessages

BulkAnswer(b, status, message) ==
    [b EXCEPT !.pc = "done", !.response = [status |-> status, message |-> message]]

\* return res.status(200).json({ message: 'Sync completed', results })
BulkCompleted(b) == BulkAnswer(b, 200, "Sync completed")

\* an entry of results.errors: its text and the item it is about (0: none)
PushError(b, kind, id) ==
    [b EXCEPT !.results.errors = Append(@, [kind |-> kind, id |-> id])]

\* what follows the item just handled, or a page without items: the next
\* item; in the company sync the next page, requested with the cursor of the
\* page just handled; the answer
BulkAdvance(b) ==
    IF b.queue # <<>> THEN [b EXCEPT !.pc = "process"]
    ELSE IF provider.kind = "slack" THEN BulkCompleted(b)
    ELSE LET c == [b EXCEPT !.cursor = b.paging, !.hasMore = (b.paging # NoCursor)]
         IN IF c.hasMore THEN [c EXCEPT !.pc = "fetch"] ELSE BulkCompleted(c)

\* one turn of the channel sync's pagination loop; b holds the request sent
SlackPage(b, o) ==
    LET k == PageOf(b.requests[Len(b.requests)].cursor) IN
    IF o # NoFetchError
    THEN IF b.cursor = NoCursor
         THEN BulkAnswer([b EXCEPT !.fetchError = o], 500, o.message)
         ELSE BulkAdvance([b EXCEPT !.fetchError = o, !.hasMore = FALSE])
    ELSE LET c == [b EXCEPT !.queue = @ \o provider.pages[k],
                            !.fetched = Append(@, k),
                            !.cursor = NextCursor(k),
                            !.hasMore = (NextCursor(k) # NoCursor)]
         IN IF c.hasMore THEN c ELSE BulkAdvance(c)

\* one request of the company sync's pagination loop; b holds the request sent
HubspotPage(b, o) ==
    LET k == PageOf(b.requests[Len(b.requests)].cursor) IN
    IF o # NoFetchError
    THEN IF IsRateLimit(o)
         THEN BulkAnswer([b EXCEPT !.fetchError = o], 429, "HubSpot API Rate Limit Error")
         ELSE IF b.cursor = NoCursor
         THEN BulkAnswer([b EXCEPT !.fetchError = o], 500, "HubSpot API Error")
         ELSE BulkCompleted(PushError([b EXCEPT !.fetchError = o, !.hasMore = FALSE],
                                      "Error fetching additional pages", 0))
    ELSE BulkAdvance([b EXCEPT !.queue = provider.pages[k],
                               !.fetched = Append(@, k),
                               !.paging = NextCursor(k)])

\* conversations.list({..., cursor}) / getPage(100, after, ['name'])
PageRequest(cursor) ==
    [limit |-> IF provider.kind = "hubspot" THEN 100 ELSE 0, cursor |-> cursor]

\* a pagination that asks for the first page every time
B_FetchFirstPageAgain ==
    /\ bulk.pc = "fetch"
    /\ Len(bulk.requests) < MaxFetches
    /\ \E o \in PageOutcomes :
         LET sent == [bulk EXCEPT !.requests = Append(@, PageRequest(NoCursor))]
         IN bulk' = IF provider.kind = "slack" THEN SlackPage(sent, o)
                    ELSE HubspotPage(sent, o)
    /\ UNCHANGED << provider, syncedRows >>
    /\ UNCHANGED nonBulkVars

\* the request for a page and what the handler does with the answer
B_Fetch ==
    /\ bulk.pc = "fetch"
    /\ Len(bulk.requests) < MaxFetches
    /\ \E o \in PageOutcomes :
         LET sent == [bulk EXCEPT !.requests = Append(@, PageRequest(bulk.cursor))]
         IN bulk' = IF provider.kind = "slack" THEN SlackPage(sent, o)
                    ELSE HubspotPage(sent, o)
    /\ UNCHANGED << provider, syncedRows >>
    /\ UNCHANGED nonBulkVars

\* a rule that also takes over a missing listed name
NameChangesWhenDifferent(item, row) == item.name # row.name

\* if (name && name !== existingChannel.name)
NameChanges(item, row) == item.name # "" /\ item.name # row.name

\* findUnique({ where: { channelId } }): the positions of the rows found
FindUnique(extId) ==
    { r \in 1..Len(syncedRows) : syncedRows[r].extId = extId }

\* the body of the per-item loop for the item at the head of the queue
B_Upsert ==
    /\ bulk.pc = "process"
    /\ bulk.queue # <<>>
    /\ LET item == Head(bulk.queue)
           b == [bulk EXCEPT !.queue = Tail(@), !.handled = Append(@, item)]
           failed == [b EXCEPT !.failedWrites = @ + 1]
       IN IF item.id = 0
          THEN /\ bulk' = BulkAdvance(PushError(b, "Skipped: No ID", 0))
               /\ UNCHANGED syncedRows
          ELSE IF FindUnique(item.id) # {}
          THEN LET r == CHOOSE r \in FindUnique(item.id) : TRUE
               IN IF NameChanges(item, syncedRows[r])
                  THEN \E w \in {"ok", "throws"} :
                         IF w = "ok"
                         THEN /\ syncedRows' = [syncedRows EXCEPT ![r].name = item.name]
                              /\ bulk' = BulkAdvance([b EXCEPT !.results.updated = @ + 1,
                                                               !.changed = @ + 1])
                         ELSE /\ bulk' = BulkAdvance(PushError(failed, "Error processing", item.id))
                              /\ UNCHANGED syncedRows
                  ELSE /\ bulk' = BulkAdvance(b)
                       /\ UNCHANGED syncedRows
          ELSE \E w \in {"ok", "P2002", "throws"} :
                 CASE w = "ok" ->
                        /\ syncedRows' = Append(syncedRows,
                                                [extId |-> item.id, name |-> item.name])
                        /\ bulk' = BulkAdvance([b EXCEPT !.results.created = @ + 1,
                                                         !.inserted = @ + 1])
                   [] w = "P2002" ->
                        \* the row another writer inserted after the lookup
                        /\ syncedRows' = Append(syncedRows,
                                                [extId |-> item.id, name |-> item.name])
                        /\ bulk' = BulkAdvance(PushError(failed, "Skipped: Duplicate entry", item.id))
                   [] OTHER ->
                        /\ bulk' = BulkAdvance(PushError(failed, "Error processing", item.id))
                        /\ UNCHANGED syncedRows
    /\ UNCHANGED provider
    /\ UNCHANGED nonBulkVars

\* the same sync requested again once the first has answered 200
B_PostAgain ==
    /\ bulk.pc = "done"
    /\ bulk.run = 1
    /\ bulk.response.status = 200
    /\ bulk' = [BulkStart(2) EXCEPT
                  !.firstRunClean = (bulk.fetchError = NoFetchError /\ bulk.failedWrites = 0)]
    /\ UNCHANGED << provider, syncedRows >>
    /\ UNCHANGED nonBulkVars

BulkNext == B_Fetch \/ B_Upsert \/ B_PostAgain

SpecBulk == BulkInit /\ [][BulkNext]_vars

\* every request is answered and every item handled once the step can be taken
SpecBulkFair == SpecBulk /\ WF_vars(BulkNext)

(***************************************************************************)
(* Provider failures in the bulk syncs.                                    *)
(***************************************************************************)
BulkDone == bulk.pc = "done"

FetchFailed == bulk.fetchError # NoFetchError

\* the items of the pages fetched so far, in the order of the pages
FetchedItems == Flatten([k \in 1..Len(bulk.fetched) |-> provider.pages[bulk.fetched[k]]])

\* every item with an id has its row, unless a write of this run failed
Persisted(items) ==
    bulk.failedWrites = 0 =>
        \A k \in 1..Len(items) : items[k].id # 0 => FindUnique(items[k].id) # {}

AdditionalPagesErrors ==
    Len(SelectSeq(bulk.results.errors,
                  LAMBDA e : e.kind = "Error fetching additional pages"))

\* a failure on the first page is answered 500, or 429 for a rate limit, and
\* no row is created or updated
FirstPageFailureIsAnError ==
    (BulkDone /\ FetchFailed /\ Len(bulk.requests) = 1) =>
        /\ bulk.response.status = IF IsRateLimit(bulk.fetchError) THEN 429 ELSE 500
        /\ syncedRows = bulk.before
        /\ bulk.inserted = 0 /\ bulk.changed = 0

\* another failure on a later page ends the pagination with 200
LaterPageFailureKeepsEarlierPages ==
    (BulkDone /\ FetchFailed /\ Len(bulk.requests) > 1
       /\ ~IsRateLimit(bulk.fetchError)) =>
        /\ bulk.response = [status |-> 200, message |-> "Sync completed"]
        /\ bulk.handled = FetchedItems
        /\ Persisted(FetchedItems)
        /\ provider.kind = "hubspot" => AdditionalPagesErrors = 1

\* a rate-limit failure is answered 429 on whichever page it occurs
RateLimitIsAnswered429 ==
    (BulkDone /\ FetchFailed /\ IsRateLimit(bulk.fetchError)) =>
        bulk.response.status = 429

\* C21: in the bulk company and channel syncs a failure on the first page
\* yields 500, or 429 for a rate limit, with no row created or updated; a
\* failure other than a rate limit on a later page ends the pagination and
\* yields 200 'Sync completed' with the items of the earlier pages persisted
\* and, for HubSpot, one 'Error fetching additional pages' entry; a
\* rate-limit failure is always answered 429
C21_ProviderFailureByPage ==
    /\ FirstPageFailureIsAnError
    /\ LaterPageFailureKeepsEarlierPages
    /\ RateLimitIsAnswered429

(***************************************************************************)
(* Pagination of the bulk syncs.                                           *)
(***************************************************************************)
\* the first request carries no cursor and request k+1 the cursor that the
\* page answered to request k returned
CursorChain ==
    \A k \in 1..Len(bulk.requests) :
        IF k = 1 THEN bulk.requests[k].cursor = NoCursor
        ELSE /\ k - 1 <= Len(bulk.fetched)
             /\ NextCursor(bulk.fetched[k - 1]) # NoCursor
             /\ bulk.requests[k].cursor = NextCursor(bulk.fetched[k - 1])

\* a request is sent only when every earlier one has been answered with a page
OneAfterAnother ==
    /\ Len(bulk.fetched) <= Len(bulk.requests)
    /\ Len(bulk.requests) <= Len(bulk.fetched) + 1
    /\ (bulk.pc = "fetch" \/ FetchFailed) \/ Len(bulk.requests) = Len(bulk.fetched)

\* the company sync asks for pages of 100
PageSize ==
    provider.kind = "hubspot" =>
        \A k \in 1..Len(bulk.requests) : bulk.requests[k].limit = 100

\* once the pagination is over without a failure, the last page fetched is
\* the first one that returned no cursor
EndsAtFirstPageWithoutCursor ==
    (bulk.pc \in {"process", "done"} /\ ~FetchFailed
       /\ (provider.kind = "slack" \/ BulkDone)) =>
        /\ bulk.fetched # <<>>
        /\ NextCursor(bulk.fetched[Len(bulk.fetched)]) = NoCursor
        /\ \A k \in 1..(Len(bulk.fetched) - 1) : NextCursor(bulk.fetched[k]) # NoCursor

\* when the handler answers, the items handled are the items of the pages
\* fetched, each once and in their order
EachItemOnce == BulkDone => bulk.handled = FetchedItems

\* C22: the bulk company sync (page size 100) and the bulk channel sync
\* request their pages one after another, the first without a cursor and
\* each next one with exactly the cursor the page before returned; the loop
\* ends at the first page without a next cursor; every item of every fetched
\* page is processed exactly once; and the sync ends whenever the provider's
\* listing has finitely many pages
C22_PagesInCursorOrder ==
    /\ [](CursorChain /\ OneAfterAnother /\ PageSize
            /\ EndsAtFirstPageWithoutCursor /\ EachItemOnce)
    /\ (~BulkDone) ~> (provider.endless \/ BulkDone)

\* a sync of a listing of two pages with one item each has answered 200
C22_Witness ==
    /\ BulkDone
    /\ ~provider.endless
    /\ bulk.run = 1
    /\ bulk.response.status = 200
    /\ Len(bulk.requests) = 2
    /\ bulk.requests[2].cursor = 2
    /\ Len(bulk.handled) = 2
    /\ \A k \in 1..2 : Len(provider.pages[k]) = 1

(***************************************************************************)
(* The bulk syncs as an upsert by external id.                             *)
(***************************************************************************)
\* no two rows share an external id
ExternalIdsUnique ==
    \A r1, r2 \in 1..Len(syncedRows) :
        syncedRows[r1].extId = syncedRows[r2].extId => r1 = r2

ErrorsAbout(kind, id) ==
    Len(SelectSeq(bulk.results.errors, LAMBDA e : e.kind = kind /\ e.id = id))

ErrorsOfKind(kind) ==
    Len(SelectSeq(bulk.results.errors, LAMBDA e : e.kind = kind))

\* rows of the table at the start of the run whose name is another one now
RowsChanged ==
    Cardinality({ r \in 1..Len(bulk.before) : syncedRows[r].name # bulk.before[r].name })

\* rows the run itself appended: a 'Duplicate entry' row is another writer's
RowsInserted ==
    Len(syncedRows) - Len(bulk.before) - ErrorsOfKind("Skipped: Duplicate entry")

CountsAreTheWrites ==
    /\ bulk.results.created = RowsInserted
    /\ bulk.results.updated = RowsChanged

AllListedItems == Flatten(provider.pages)

\* after a sync every listed item with an id has exactly one row
EveryListedItemHasItsRow ==
    (BulkDone /\ bulk.response.status = 200) =>
        \A k \in 1..Len(AllListedItems) :
            AllListedItems[k].id # 0 =>
                Cardinality(FindUnique(AllListedItems[k].id)) = 1

\* after a sync every item handled has exactly one row, or its create failed
\* and results.errors says so
EveryHandledItemHasItsRow ==
    BulkDone =>
        \A k \in 1..Len(bulk.handled) :
            LET item == bulk.handled[k]
            IN item.id # 0 =>
                 \/ Cardinality(FindUnique(item.id)) = 1
                 \/ /\ FindUnique(item.id) = {}
                    /\ ErrorsAbout("Error processing", item.id) >= 1

\* the second sync of the same listing writes nothing
SecondRunWritesNothing ==
    bulk.run = 2 =>
        /\ syncedRows = bulk.before
        /\ bulk.results.created = 0
        /\ bulk.results.updated = 0

\* a step changes the name of a row only to the non-empty, different name
\* under which the item being handled lists it, and touches no other row
NameChangeRule ==
    \A r \in 1..Len(syncedRows) :
        /\ r <= Len(syncedRows')
        /\ syncedRows'[r].extId = syncedRows[r].extId
        /\ syncedRows'[r].name # syncedRows[r].name =>
             /\ bulk.pc = "process"
             /\ Head(bulk.queue).id = syncedRows[r].extId
             /\ Head(bulk.queue).name # ""
             /\ syncedRows'[r].name = Head(bulk.queue).name

ProcessSlots == 1..MaxProcessRequests

\* errorMessage: null
NoErrorMessage == ""

MeetingIds == {"", "M1"}

\* the log as firespot.ts left it, or as an earlier process request did
FireHookLogs ==
    { [present |-> FALSE] }
      \cup [present : {TRUE}, processed : BOOLEAN, meetingId : MeetingIds,
            errorMessage : {NoErrorMessage, "Meeting not found: M1"}]

NoteOf(meetingId) == [meetingId |-> meetingId, writes |-> 1]

\* findUnique({ where: { meetingId } }): the positions of the notes found
FindNote(meetingId) ==
    { n \in 1..Len(meetingNotes) : meetingNotes[n].meetingId = meetingId }

ArrivedRequest ==
    [pc |-> "start", seen |-> [present |-> FALSE], existingNote |-> 0,
     error |-> NoErrorMessage, status |-> 0, writes |-> 0]

\* a processed log has no error message and its meeting has its note
ProcessInit ==
    /\ fireHookLog \in FireHookLogs
    /\ meetingNotes \in { <<>>, << NoteOf("M1") >> }
    /\ fireHookLog.present /\ fireHookLog.processed =>
         /\ fireHookLog.meetingId # ""
         /\ fireHookLog.errorMessage = NoErrorMessage
         /\ FindNote(fireHookLog.meetingId) # {}
    /\ processReqs = [s \in ProcessSlots |-> ArrivedRequest]
    /\ SyncIdle /\ PromptIdle /\ DeleteIdle /\ WebhookIdle /\ CadenceIdle
    /\ BulkIdle

ProcessRespond(r, status) == [r EXCEPT !.pc = "done", !.status = status]

ProcessThrow(r, message) == [r EXCEPT !.pc = "catch", !.error = message]

ProcessFrame == UNCHANGED nonProcessVars

\* fireHookLog = await prisma.fireHookLog.findUnique(...) and the checks on it
P_Read(s) ==
    /\ processReqs[s].pc = "start"
    /\ \E o \in {"ok", "throws"} :
         LET r == [processReqs[s] EXCEPT !.seen = fireHookLog] IN
         processReqs' = [processReqs EXCEPT ![s] =
            IF o = "throws" THEN ProcessThrow(processReqs[s], "Database error")
            ELSE IF ~fireHookLog.present THEN ProcessRespond(r, 404)
            ELSE IF fireHookLog.processed THEN ProcessRespond(r, 400)
            ELSE IF fireHookLog.meetingId = "" THEN ProcessRespond(r, 400)
            ELSE [r EXCEPT !.pc = "fetch"]]
    /\ UNCHANGED << fireHookLog, meetingNotes >>
    /\ ProcessFrame

\* the transcript query by id and, without a transcript, the query of all
TranscriptOutcomes == {"found", "http-error", "graphql-errors", "not-found", "throws"}

P_Fetch(s) ==
    /\ processReqs[s].pc = "fetch"
    /\ \E o \in TranscriptOutcomes :
         LET r == processReqs[s] IN
         processReqs' = [processReqs EXCEPT ![s] =
            CASE o = "found" -> [r EXCEPT !.pc = "lookup"]
              [] o = "http-error" ->
                   [r EXCEPT !.pc = "markFailed", !.status = 500,
                             !.error = "Fireflies API HTTP error"]
              [] o = "graphql-errors" ->
                   [r EXCEPT !.pc = "markFailed", !.status = 500,
                             !.error = "Fireflies API GraphQL errors"]
              [] o = "not-found" ->
                   [r EXCEPT !.pc = "markFailed", !.status = 404,
                             !.error = "Meeting not found: M1"]
              [] OTHER -> ProcessThrow(r, "fetch failed")]
    /\ UNCHANGED << fireHookLog, meetingNotes >>
    /\ ProcessFrame

\* prisma.fireHookLog.update({ data: { errorMessage, processed: false } })
\* and the 500 or 404 that follows
P_MarkFailed(s) ==
    /\ processReqs[s].pc = "markFailed"
    /\ \E o \in {"ok", "throws"} :
         LET r == processReqs[s] IN
         IF o = "ok"
         THEN /\ fireHookLog' = [fireHookLog EXCEPT !.errorMessage = r.error,
                                                      !.processed = FALSE]
              /\ processReqs' = [processReqs EXCEPT ![s] =
                    ProcessRespond([r EXCEPT !.writes = @ + 1], r.status)]
         ELSE /\ processReqs' = [processReqs EXCEPT ![s] =
                    ProcessThrow(r, "Database error")]
              /\ UNCHANGED fireHookLog
    /\ UNCHANGED meetingNotes
    /\ ProcessFrame

\* existingNote = await prisma.meetingNote.findUnique(...)
P_Lookup(s) ==
    /\ processReqs[s].pc = "lookup"
    /\ \E o \in {"ok", "throws"} :
         LET r == processReqs[s]
             found == FindNote(r.seen.meetingId) IN
         processReqs' = [processReqs EXCEPT ![s] =
            IF o = "throws" THEN ProcessThrow(r, "Database error")
            ELSE [r EXCEPT !.pc = "writeNote",
                           !.existingNote = IF found = {} THEN 0
                                            ELSE CHOOSE n \in found : TRUE]]
    /\ UNCHANGED << fireHookLog, meetingNotes >>
    /\ ProcessFrame

\* meetingNote.update of the note found, or meetingNote.create, which the
\* unique meetingId rejects when another request created the note meanwhile
P_WriteNote(s) ==
    /\ processReqs[s].pc = "writeNote"
    /\ \E o \in {"ok", "throws"} :
         LET r == processReqs[s]
             written == [r EXCEPT !.pc = "markProcessed", !.writes = @ + 1] IN
         IF o = "throws"
         THEN /\ processReqs' = [processReqs EXCEPT ![s] =
                    ProcessThrow(r, "Database error")]
              /\ UNCHANGED meetingNotes
         ELSE IF r.existingNote # 0
         THEN /\ meetingNotes' = [meetingNotes EXCEPT ![r.existingNote].writes = @ + 1]
              /\ processReqs' = [processReqs EXCEPT ![s] = written]
         ELSE IF FindNote(r.seen.meetingId) # {}
         THEN /\ processReqs' = [processReqs EXCEPT ![s] =
                    ProcessThrow(r, "Unique constraint failed")]
              /\ UNCHANGED meetingNotes
         ELSE /\ meetingNotes' = Append(meetingNotes, NoteOf(r.seen.meetingId))
              /\ processReqs' = [processReqs EXCEPT ![s] = written]
    /\ UNCHANGED fireHookLog
    /\ ProcessFrame

\* prisma.fireHookLog.update({ data: { processed: true, errorMessage: null } })
\* and the 200
P_MarkProcessed(s) ==
    /\ processReqs[s].pc = "markProcessed"
    /\ \E o \in {"ok", "throws"} :
         LET r == processReqs[s] IN
         IF o = "ok"
         THEN /\ fireHookLog' = [fireHookLog EXCEPT !.processed = TRUE,
                                                      !.errorMessage = NoErrorMessage]
              /\ processReqs' = [processReqs EXCEPT ![s] =
                    ProcessRespond([r EXCEPT !.writes = @ + 1], 200)]
         ELSE /\ processReqs' = [processReqs EXCEPT ![s] =
                    ProcessThrow(r, "Database error")]
              /\ UNCHANGED fireHookLog
    /\ UNCHANGED meetingNotes
    /\ ProcessFrame

\* the handler's catch: the update of the log, itself in a try, and the 500
P_Catch(s) ==
    /\ processReqs[s].pc = "catch"
    /\ \E o \in {"ok", "throws"} :
         LET r == processReqs[s] IN
         IF o = "ok" /\ fireHookLog.present
         THEN /\ fireHookLog' = [fireHookLog EXCEPT !.errorMessage = r.error,
                                                      !.processed = FALSE]
              /\ processReqs' = [processReqs EXCEPT ![s] =
                    ProcessRespond([r EXCEPT !.writes = @ + 1], 500)]
         ELSE /\ processReqs' = [processReqs EXCEPT ![s] = ProcessRespond(r, 500)]
              /\ UNCHANGED fireHookLog
    /\ UNCHANGED meetingNotes
    /\ ProcessFrame

ProcessNext ==
    \E s \in ProcessSlots :
        \/ P_Read(s)
        \/ P_Fetch(s)
        \/ P_MarkFailed(s)
        \/ P_Lookup(s)
        \/ P_WriteNote(s)
        \/ P_MarkProcessed(s)
        \/ P_Catch(s)

SpecProcess == ProcessInit /\ [][ProcessNext]_vars

\* once processed is true it stays true and errorMessage stays null
ProcessedIsMonotonic ==
    (fireHookLog.present /\ fireHookLog.processed) =>
        /\ fireHookLog'.processed
        /\ fireHookLog'.errorMessage = NoErrorMessage

\* a request that finds the log processed answers 400 and writes nothing
ProcessedLogIsRefused ==
    \A s \in ProcessSlots :
        (processReqs[s].pc = "done" /\ processReqs[s].seen.present
           /\ processReqs[s].seen.processed) =>
            /\ processReqs[s].status = 400
            /\ processReqs[s].writes = 0

\* at most one request processes the event
ProcessedAtMostOnce ==
    Cardinality({ s \in ProcessSlots : processReqs[s].status = 200 }) <= 1

ProcessedHasItsNote ==
    (fireHookLog.present /\ fireHookLog.processed) =>
        FindNote(fireHookLog.meetingId) # {}

OneNotePerMeeting ==
    \A m \in MeetingIds : Cardinality(FindNote(m)) <= 1

\* C30: for any interleaving of process requests on the same FireHookLog,
\* once processed is true it never becomes false again and errorMessage
\* stays null; the event is processed at most once; a process request on an
\* already processed log returns 400 and performs no write; processed = true
\* implies that a MeetingNote of the log's meetingId exists; and at most one
\* MeetingNote exists per meetingId
C30_ProcessedIsMonotonic ==
    /\ [][ProcessedIsMonotonic]_vars
    /\ [](ProcessedLogIsRefused /\ ProcessedAtMostOnce /\ ProcessedHasItsNote
            /\ OneNotePerMeeting)

====
